---- MODULE Spec2Model ----
(***************************************************************************)
(* Model of gitllama's hierarchical repository analysis                    *)
(* (src/src/gitllama/project_analyzer.py): gathering, chunking, chunk      *)
(* summarization, recursive merging and result formatting, with the        *)
(* text-completion capability as a nondeterministic environment.           *)
(***************************************************************************)
EXTENDS Integers, Sequences, FiniteSets, TLC

VARIABLES
    stage,              \* position of analyze_repository in its pipeline
    max_context_size,   \* self.max_context_size
    all_files,          \* all_files, in the order gathering produced them
    sorted_files,       \* sorted_files of _step2_create_chunks
    idx,                \* position of the chunking loop in sorted_files
    chunks,             \* chunks
    current_chunk,      \* current_chunk
    current_tokens,     \* current_tokens
    chunk_summaries,    \* chunk_summaries of _step3_analyze_chunks
    stack,              \* activation records of merge_recursive, top last
    ret,                \* value being returned by the top invocation
    final_summary,      \* final_summary
    result,             \* what analyze_repository returns
    raised,             \* exception propagating out of analyze_repository
    calls,              \* history: the chat_stream calls made so far
    cancelled,          \* environment: the caller has asked the run to stop
    repo_path,          \* GitAutomator.repo_path
    git_log,            \* history: the git commands GitAutomator has run
    written,            \* the files GitAutomator has written
    git_result,         \* outcome of the last GitAutomator method called
    workflow,           \* position and result of run_full_workflow
    head,               \* the branch checked out in the repository
    current_branch,     \* current_branch of analyze_all_branches
    all_branches,       \* all_branches of analyze_all_branches
    bidx,               \* position of its loop in all_branches
    branch_analyses,    \* branch_analyses: per branch, the analysis stored
    br_stage,           \* position of analyze_all_branches
    sel_stage,          \* position of analyze_and_select_branch
    sel_input,          \* its arguments: branch_summaries and project_info
    reuse_candidates,   \* reuse_candidates of BranchAnalyzer
    decision,           \* decision of _step3_make_branch_decision
    final_branch,       \* what _step4_finalize_branch_selection returns
    messages,           \* the list trim_messages works on
    trim_max_tokens,    \* max_tokens of trim_messages
    given_messages,     \* history: the list trim_messages was called with
    trim_stage          \* position of trim_messages

\* the state of ProjectAnalyzer and of one analyze_repository run
pvars == <<stage, max_context_size, all_files, sorted_files, idx, chunks,
           current_chunk, current_tokens, chunk_summaries, stack, ret,
           final_summary, result, raised, calls>>

\* the state of GitAutomator and of its repository
gitvars == <<repo_path, git_log, written, git_result>>

\* the state of one analyze_all_branches call and of its repository
brvars == <<head, current_branch, all_branches, bidx, branch_analyses, br_stage>>

\* the state of one analyze_and_select_branch call
selvars == <<sel_stage, sel_input, reuse_candidates, decision, final_branch>>

\* the state of one trim_messages call
trimvars == <<messages, trim_max_tokens, given_messages, trim_stage>>

\* everything outside the analysis pipeline, GitAutomator's methods and the
\* cancellation request
extvars == <<workflow, brvars, selvars, trimvars>>

vars == <<stage, max_context_size, all_files, sorted_files, idx, chunks,
          current_chunk, current_tokens, chunk_summaries, stack, ret,
          final_summary, result, raised, calls, cancelled, repo_path,
          git_log, written, git_result, workflow, head, current_branch,
          all_branches, bidx, branch_analyses, br_stage, sel_stage, sel_input,
          reuse_candidates, decision, final_branch, messages, trim_max_tokens,
          given_messages, trim_stage>>

(***************************************************************************)
(* Bounds of the model.                                                    *)
(***************************************************************************)
\* at most this many files are gathered in one run
MaxFiles == 2
\* nested invocations of merge_recursive the interpreter allows before it
\* raises RecursionError (sys.getrecursionlimit(), scaled down)
MaxDepth == 6

(***************************************************************************)
(* Text.  A string is a sequence of runs [n, w]: n characters that each    *)
(* cost w tokens.  Python's len, slicing and concatenation are computed on *)
(* this representation.                                                    *)
(***************************************************************************)
Run(n, w) == <<[n |-> n, w |-> w]>>

Min(a, b) == IF a <= b THEN a ELSE b

RECURSIVE len(_)
len(t) == IF t = <<>> THEN 0 ELSE Head(t).n + len(Tail(t))

RECURSIVE Take(_, _)
\* t[:k]
Take(t, k) ==
    IF k <= 0 \/ t = <<>> THEN <<>>
    ELSE IF Head(t).n <= k THEN <<Head(t)>> \o Take(Tail(t), k - Head(t).n)
    ELSE Run(k, Head(t).w)

RECURSIVE Drop(_, _)
\* t[k:]
Drop(t, k) ==
    IF t = <<>> THEN <<>>
    ELSE IF k <= 0 THEN t
    ELSE IF Head(t).n <= k THEN Drop(Tail(t), k - Head(t).n)
    ELSE Run(Head(t).n - k, Head(t).w) \o Tail(t)

\* t[a:b]
Slice(t, a, b) == Take(Drop(t, a), b - a)

RECURSIVE Chars(_)
\* the characters of t one by one (each character is its token weight)
Chars(t) ==
    IF t = <<>> THEN <<>>
    ELSE IF Head(t).n = 0 THEN Chars(Tail(t))
    ELSE <<Head(t).w>> \o Chars(Run(Head(t).n - 1, Head(t).w) \o Tail(t))

RECURSIVE count_tokens(_)
\* client.count_tokens(text): the token estimate of a text
count_tokens(t) ==
    IF t = <<>> THEN 0 ELSE Head(t).n * Head(t).w + count_tokens(Tail(t))

CeilDiv(a, b) == (a + b - 1) \div b

\* client.split_into_chunks(text, max_tokens): ceil(cost / max_tokens)
\* contiguous parts cut at character positions proportional to the length;
\* the cost of a part is not estimated again while cutting
split_into_chunks(text, max_tokens) ==
    LET total == CeilDiv(count_tokens(text), max_tokens)
        L == len(text)
    IN [i \in 1..total |-> Slice(text, ((i - 1) * L) \div total, (i * L) \div total)]

(***************************************************************************)
(* Files.                                                                  *)
(***************************************************************************)
\* the paths gathering can produce, listed in lexicographic order
Paths == <<"a.py", "b.py", "c.py", "d.py", "e.py", "f.py">>

\* the repository of the pipeline's runs holds the first three of them
RepoPaths == {Paths[i] : i \in 1..3}

PathRank(p) == CHOOSE i \in 1..Len(Paths) : Paths[i] = p

\* the content gathering reads for each path
ContentOf(p) ==
    CASE p = "a.py" -> Run(2, 1)
      [] p = "b.py" -> Run(2, 2) \o Run(2, 1)
      [] p = "c.py" -> Run(2, 1)

\* the dict appended to all_files; part/total are 0 for a whole file and
\* stand for the " (part i/total)" suffix of a split file's path
FileData(p) ==
    [path |-> p, part |-> 0, total |-> 0,
     content |-> ContentOf(p), tokens |-> count_tokens(ContentOf(p))]

RECURSIVE Insert(_, _)
Insert(f, s) ==
    IF s = <<>> THEN <<f>>
    ELSE IF PathRank(f.path) < PathRank(Head(s).path) THEN <<f>> \o s
    ELSE <<Head(s)>> \o Insert(f, Tail(s))

RECURSIVE SortByPath(_)
\* sorted(files, key=lambda x: x['path']): stable, ascending by path
SortByPath(files) ==
    IF files = <<>> THEN <<>>
    ELSE Insert(files[Len(files)], SortByPath(SubSeq(files, 1, Len(files) - 1)))

\* the file lists gathering can yield: any selection of at most MaxFiles
\* distinct paths, in ascending or in descending order of path
RECURSIVE Reverse(_)
Reverse(s) == IF s = <<>> THEN <<>> ELSE Reverse(Tail(s)) \o <<Head(s)>>

RECURSIVE Ascending(_, _)
Ascending(P, i) ==
    IF i > Len(Paths) THEN <<>>
    ELSE (IF Paths[i] \in P THEN <<FileData(Paths[i])>> ELSE <<>>) \o Ascending(P, i + 1)

Gatherable ==
    LET sel == {P \in SUBSET RepoPaths : Cardinality(P) <= MaxFiles}
    IN {Ascending(P, 1) : P \in sel} \cup {Reverse(Ascending(P, 1)) : P \in sel}

\* the context window sizes get_model_context_size reports in the model;
\* on both, int(x * 0.7) in floating point equals (x * 7) \div 10
ContextSizes == {719, 722}

usable_context_size == (max_context_size * 7) \div 10

chunk_size == usable_context_size - 500

(***************************************************************************)
(* Construction: ProjectAnalyzer.__init__ has read the model's context     *)
(* size; no analysis has started.                                          *)
(***************************************************************************)
\* A summary is a JSON value.  type is "object" for a dict and "other" for
\* any other JSON value; keys are the keys a dict has; the fields hold the
\* values of the keys the model follows (0, "" or the empty text when the
\* key is absent) and body the serialized text of all other content.
JsonValue(type, keys, chunk_index, file_count, merge_level, summaries_merged, raw_analysis, project_type, body) ==
    [type |-> type, keys |-> keys, chunk_index |-> chunk_index,
     file_count |-> file_count, merge_level |-> merge_level,
     summaries_merged |-> summaries_merged, raw_analysis |-> raw_analysis,
     project_type |-> project_type, body |-> body,
     technologies |-> {}, all_technologies |-> {}]

\* no value (None, or a local not yet assigned)
NoSummary == JsonValue("none", {}, 0, 0, 0, 0, <<>>, "", <<>>)

\* the outcome of json.loads raising JSONDecodeError
ParseError == JsonValue("error", {}, 0, 0, 0, 0, <<>>, "", <<>>)

NoResult ==
    [project_type |-> "none", technologies |-> {}, total_files |-> 0, total_tokens |-> 0,
     chunks_created |-> 0, detailed_analysis |-> NoSummary]

\* self.repo_path = None
NoPath == "None"

\* no method of GitAutomator has been called yet
NoCall == [op |-> "none", outcome |-> "none"]

\* run_full_workflow has not been called
WorkflowIdle ==
    workflow = [pc |-> "idle", success |-> FALSE, error |-> "none", done |-> <<>>,
                git_url |-> "None", branch_name |-> "None", commit_message |-> "None"]

\* analyze_all_branches has not been called; the repository is on main
BranchIdle ==
    /\ head = "main"
    /\ current_branch = "none"
    /\ all_branches = <<>>
    /\ bidx = 0
    /\ branch_analyses = <<>>
    /\ br_stage = "idle"

\* analyze_and_select_branch has not been called
SelectIdle ==
    /\ sel_stage = "idle"
    /\ sel_input = <<>>
    /\ reuse_candidates = <<>>
    /\ decision = <<>>
    /\ final_branch = <<>>

\* trim_messages has not been called
TrimIdle ==
    /\ messages = <<>>
    /\ trim_max_tokens = 0
    /\ given_messages = <<>>
    /\ trim_stage = "idle"

ExtIdle == WorkflowIdle /\ BranchIdle /\ SelectIdle /\ TrimIdle

Init ==
    /\ stage = "Gathering"
    /\ max_context_size \in ContextSizes
    /\ all_files = <<>>
    /\ sorted_files = <<>>
    /\ idx = 0
    /\ chunks = <<>>
    /\ current_chunk = <<>>
    /\ current_tokens = 0
    /\ chunk_summaries = <<>>
    /\ stack = <<>>
    /\ ret = NoSummary
    /\ final_summary = NoSummary
    /\ result = NoResult
    /\ raised = "none"
    /\ calls = <<>>
    /\ cancelled = FALSE
    /\ repo_path = NoPath
    /\ git_log = <<>>
    /\ written = {}
    /\ git_result = NoCall
    /\ ExtIdle

(***************************************************************************)
(* STEP 1 and the empty short-circuit of analyze_repository.               *)
(***************************************************************************)
RECURSIVE SumTokens(_)
\* sum(f['tokens'] for f in files)
SumTokens(files) ==
    IF files = <<>> THEN 0 ELSE Head(files).tokens + SumTokens(Tail(files))

\* the dict returned when no analyzable file was found
EmptyResult ==
    [project_type |-> "empty", technologies |-> {}, total_files |-> 0, total_tokens |-> 0,
     chunks_created |-> 0, detailed_analysis |-> NoSummary]

\* faulty variant: the empty short-circuit is never taken
NoFiles_Never(files) == FALSE

\* if not all_files
NoFiles(files) == files = <<>>

\* _step1_gather_repository_data returns files; on an empty list
\* analyze_repository returns at once, otherwise _step2_create_chunks starts
\* (its locals are initialised and the files sorted)
step1_gather ==
    /\ stage = "Gathering"
    /\ raised = "none"
    /\ \E files \in Gatherable :
        /\ all_files' = files
        /\ IF NoFiles(files)
           THEN /\ result' = EmptyResult
                /\ stage' = "Done"
                /\ UNCHANGED <<sorted_files, idx>>
           ELSE /\ stage' = "Chunking"
                /\ sorted_files' = SortByPath(files)
                /\ idx' = 1
                /\ UNCHANGED result
    /\ UNCHANGED <<max_context_size, chunks, current_chunk, current_tokens,
                   chunk_summaries, stack, ret, final_summary, raised, calls>>
    /\ UNCHANGED <<cancelled, gitvars, extvars>>

(***************************************************************************)
(* STEP 2: _step2_create_chunks, one loop iteration per step.              *)
(***************************************************************************)
\* if file_tokens > chunk_size
IsOversized(file_data) == file_data.tokens > chunk_size

\* faulty variant: a file that fills the chunk exactly is turned away
Overflows_AtLimit(file_data) == current_tokens + file_data.tokens >= chunk_size

\* faulty variant: the cost of the open chunk is not counted
Overflows_IgnoringCurrent(file_data) == file_data.tokens > chunk_size

\* faulty variant: every file is taken not to fit the open chunk
Overflows_Always(file_data) == TRUE

\* elif current_tokens + file_tokens > chunk_size
Overflows(file_data) == current_tokens + file_data.tokens > chunk_size

\* faulty variant: the open chunk is discarded instead of appended
FlushCurrent_Dropping(chs, cur) == chs

\* faulty variant: the open chunk is appended even when it is empty
FlushCurrent_Always(chs, cur) == Append(chs, cur)

\* if current_chunk: chunks.append(current_chunk)
FlushCurrent(chs, cur) == IF cur # <<>> THEN Append(chs, cur) ELSE chs

\* faulty variant: the parts are labelled from 0, (part {i}/{total})
SplitChunks_ZeroBased(file_data) ==
    LET content_chunks == split_into_chunks(file_data.content, chunk_size)
    IN [i \in 1..Len(content_chunks) |->
           <<[path |-> file_data.path, part |-> i - 1, total |-> Len(content_chunks),
              content |-> content_chunks[i],
              tokens |-> count_tokens(content_chunks[i])]>>]

\* the singleton chunks made of the parts of an oversized file
SplitChunks(file_data) ==
    LET content_chunks == split_into_chunks(file_data.content, chunk_size)
    IN [i \in 1..Len(content_chunks) |->
           <<[path |-> file_data.path, part |-> i, total |-> Len(content_chunks),
              content |-> content_chunks[i],
              tokens |-> count_tokens(content_chunks[i])]>>]

step2_loop ==
    /\ stage = "Chunking"
    /\ idx <= Len(sorted_files)
    /\ LET file_data == sorted_files[idx] IN
         IF IsOversized(file_data)
         THEN /\ chunks' = FlushCurrent(chunks, current_chunk) \o SplitChunks(file_data)
              /\ current_chunk' = <<>>
              /\ current_tokens' = 0
         ELSE IF Overflows(file_data)
         THEN /\ chunks' = FlushCurrent(chunks, current_chunk)
              /\ current_chunk' = <<file_data>>
              /\ current_tokens' = file_data.tokens
         ELSE /\ current_chunk' = Append(current_chunk, file_data)
              /\ current_tokens' = current_tokens + file_data.tokens
              /\ UNCHANGED chunks
    /\ idx' = idx + 1
    /\ UNCHANGED <<stage, max_context_size, all_files, sorted_files,
                   chunk_summaries, stack, ret, final_summary, result, raised, calls>>
    /\ UNCHANGED <<cancelled, gitvars, extvars>>

\* the loop is over: the remaining chunk is added and the chunks returned
step2_finish ==
    /\ stage = "Chunking"
    /\ idx > Len(sorted_files)
    /\ chunks' = FlushCurrent(chunks, current_chunk)
    /\ stage' = "ChunkSummarizing"
    /\ UNCHANGED <<max_context_size, all_files, sorted_files, idx, current_chunk,
                   current_tokens, chunk_summaries, stack, ret, final_summary,
                   result, raised, calls>>
    /\ UNCHANGED <<cancelled, gitvars, extvars>>

(***************************************************************************)
(* The completion capability.  A response is its raw text together with    *)
(* what json.loads makes of that text.                                     *)
(***************************************************************************)
\* json.dumps(summary, indent=2): the keys and punctuation of a dict, then
\* the text of its values
dumps(v) ==
    IF v.type = "object"
    THEN Run(16 * Cardinality(v.keys), 1) \o v.raw_analysis \o v.body
    ELSE v.body

Response(parsed, raw) == [raw |-> raw, parsed |-> parsed]

\* the bodies a JSON answer can carry: one of which two fit the usable
\* context and three do not, and one so long that it never fits
Bodies == {Run(150, 1), Run(600, 1)}

\* the technologies a JSON answer names
Technologies == {"python"}

\* the responses chat_stream can deliver to the chunk prompt; a JSON object
\* has keys of the chunk prompt's schema, "technologies" among them
ChunkResponses(chunk_index, file_count) ==
    {Response(ParseError, <<>>),
     Response(ParseError, Run(8, 1)),
     Response(ParseError, Run(600, 1)),
     Response(JsonValue("other", {}, 0, 0, 0, 0, <<>>, "", Run(2, 1)), Run(2, 1))}
    \cup
    {LET v == [JsonValue("object", {"chunk_index", "file_count", "technologies"},
                         chunk_index, file_count, 0, 0, <<>>, "", b)
               EXCEPT !.technologies = Technologies]
     IN Response(v, dumps(v)) : b \in Bodies}

\* the responses chat_stream can deliver to the merge prompt; a JSON object
\* has keys of the merge prompt's schema, "all_technologies" among them
MergeResponses(level, n) ==
    {Response(ParseError, <<>>),
     Response(ParseError, Run(8, 1)),
     Response(ParseError, Run(600, 1)),
     Response(JsonValue("other", {}, 0, 0, 0, 0, <<>>, "", Run(2, 1)), Run(2, 1))}
    \cup
    {LET v == [JsonValue("object", {"merge_level", "project_type", "all_technologies"},
                         0, 0, level, 0, <<>>, "library", b)
               EXCEPT !.all_technologies = Technologies]
     IN Response(v, dumps(v)) : b \in Bodies}

(***************************************************************************)
(* STEP 3: _step3_analyze_chunks, one chunk per step.                      *)
(***************************************************************************)
\* faulty variant: the raw response is kept whole instead of its prefix
analyze_single_chunk_untruncated(chunk, chunk_index, response) ==
    IF response.parsed.type # "error"
    THEN response.parsed
    ELSE JsonValue("object", {"chunk_index", "file_count", "raw_analysis"},
                   chunk_index, Len(chunk), 0, 0, response.raw, "", <<>>)

\* what _analyze_single_chunk returns on the given response
analyze_single_chunk(chunk, chunk_index, response) ==
    IF response.parsed.type # "error"
    THEN response.parsed
    ELSE JsonValue("object", {"chunk_index", "file_count", "raw_analysis"},
                   chunk_index, Len(chunk), 0, 0, Take(response.raw, 500), "", <<>>)

step3_analyze_chunk ==
    /\ stage = "ChunkSummarizing"
    /\ Len(chunk_summaries) < Len(chunks)
    /\ LET i == Len(chunk_summaries) + 1 IN
        \E response \in ChunkResponses(i, Len(chunks[i])) :
            /\ chunk_summaries' = Append(chunk_summaries,
                                         analyze_single_chunk(chunks[i], i, response))
            /\ calls' = Append(calls, [op |-> "chunk", arg |-> i, n |-> Len(chunks[i]),
                                       context_tokens |-> SumTokens(chunks[i]),
                                       response |-> response,
                                       span |-> <<i, i>>, inputs |-> <<>>])
    /\ UNCHANGED <<stage, max_context_size, all_files, sorted_files, idx, chunks,
                   current_chunk, current_tokens, stack, ret, final_summary,
                   result, raised>>
    /\ UNCHANGED <<cancelled, gitvars, extvars>>

(***************************************************************************)
(* STEP 4: _step4_merge_summaries.  merge_recursive runs on an explicit    *)
(* stack of activation records; pc is the call an invocation waits in.     *)
(***************************************************************************)
\* spans records, for each summary of the list, the positions lo..hi of the
\* chunk summaries it was made of (a chunk summary itself has lo = hi)
Frame(summaries_to_merge, level, spans) ==
    [summaries_to_merge |-> summaries_to_merge, level |-> level, pc |-> "start",
     left_summary |-> NoSummary, right_summary |-> NoSummary, spans |-> spans]

\* the positions a list of summaries was made of, from its first to its last
Hull(spans) ==
    IF spans = <<>> THEN <<0, 0>> ELSE <<spans[1][1], spans[Len(spans)][2]>>

\* the spans of the chunk summaries 1..n
LeafSpans(n) == [i \in 1..n |-> <<i, i>>]

Top == stack[Len(stack)]

Pop == SubSeq(stack, 1, Len(stack) - 1)

\* the frame below the top one is updated and a new invocation is pushed
SetTop(f) == [stack EXCEPT ![Len(stack)] = f]

RECURSIVE Context(_)
\* "\n".join(context_parts): per summary a "=== Summary i ===" line, its
\* json.dumps and an empty line
Context(summaries_to_merge) ==
    IF summaries_to_merge = <<>> THEN <<>>
    ELSE Run(18, 1) \o dumps(Head(summaries_to_merge)) \o Run(2, 1)
         \o Context(Tail(summaries_to_merge))

context_tokens(summaries_to_merge) == count_tokens(Context(summaries_to_merge))

\* the level given to merge_recursive for a half of the list
HalfLevel(level) == level

\* faulty variant: the two half-results are combined at the caller's level
CombineLevel_Same(level) == level

\* the level given to merge_recursive for the two half-results
CombineLevel(level) == level + 1

\* faulty variant: the base case is never taken
IsSingle_Never(summaries_to_merge) == FALSE

\* faulty variant: the base case tests for the empty list
IsSingle_Empty(summaries_to_merge) == Len(summaries_to_merge) = 0

\* if len(summaries_to_merge) == 1
IsSingle(summaries_to_merge) == Len(summaries_to_merge) = 1

\* faulty variant: the context is compared with the whole context window
TooLarge_MaxContext(summaries_to_merge) ==
    context_tokens(summaries_to_merge) > max_context_size

\* if context_tokens > self.usable_context_size
TooLarge(summaries_to_merge) ==
    context_tokens(summaries_to_merge) > usable_context_size

\* mid = len(summaries_to_merge) // 2
Mid(summaries_to_merge) == Len(summaries_to_merge) \div 2

\* faulty variant: the left slice is one element too long, [:mid + 1]
LeftHalf_OffByOne(summaries_to_merge) ==
    SubSeq(summaries_to_merge, 1, Mid(summaries_to_merge) + 1)

\* faulty variant: the first slice is the right one, [mid:]
LeftHalf_Right(summaries_to_merge) ==
    SubSeq(summaries_to_merge, Mid(summaries_to_merge) + 1, Len(summaries_to_merge))

\* summaries_to_merge[:mid]
LeftHalf(summaries_to_merge) ==
    SubSeq(summaries_to_merge, 1, Mid(summaries_to_merge))

\* faulty variant: the right slice leaves the middle element out, [mid + 1:]
RightHalf_SkipOne(summaries_to_merge) ==
    SubSeq(summaries_to_merge, Mid(summaries_to_merge) + 2, Len(summaries_to_merge))

\* summaries_to_merge[mid:]
RightHalf(summaries_to_merge) ==
    SubSeq(summaries_to_merge, Mid(summaries_to_merge) + 1, Len(summaries_to_merge))

\* faulty variant: the degraded summary records the next level
merged_summary_next_level(summaries_to_merge, level, response) ==
    IF response.parsed.type # "error"
    THEN response.parsed
    ELSE JsonValue("object", {"merge_level", "summaries_merged", "raw_analysis"},
                   0, 0, level + 1, Len(summaries_to_merge), Take(response.raw, 500), "", <<>>)

\* what merge_recursive returns after the external call, on the given response
merged_summary(summaries_to_merge, level, response) ==
    IF response.parsed.type # "error"
    THEN response.parsed
    ELSE JsonValue("object", {"merge_level", "summaries_merged", "raw_analysis"},
                   0, 0, level, Len(summaries_to_merge), Take(response.raw, 500), "", <<>>)

\* a nested invocation is entered, unless the interpreter's recursion limit
\* is reached: then RecursionError propagates out of analyze_repository
Invoke(stk, summaries_to_merge, level, spans) ==
    IF Len(stk) >= MaxDepth
    THEN /\ raised' = "RecursionError"
         /\ stack' = stk
    ELSE /\ stack' = Append(stk, Frame(summaries_to_merge, level, spans))
         /\ UNCHANGED raised

\* faulty variant: the loop over the chunks is left after its first pass
AllAnalyzed_AfterFirst(summaries, chs) == Len(summaries) >= 1

\* for i, chunk in enumerate(chunks, 1) has run over every chunk
AllAnalyzed(summaries, chs) == Len(summaries) = Len(chs)

\* all chunks are summarized: final_summary = merge_recursive(summaries)
step4_begin ==
    /\ stage = "ChunkSummarizing"
    /\ AllAnalyzed(chunk_summaries, chunks)
    /\ stage' = "Merging"
    /\ stack' = <<Frame(chunk_summaries, 1, LeafSpans(Len(chunk_summaries)))>>
    /\ UNCHANGED <<max_context_size, all_files, sorted_files, idx, chunks,
                   current_chunk, current_tokens, chunk_summaries, ret,
                   final_summary, result, raised, calls>>
    /\ UNCHANGED <<cancelled, gitvars, extvars>>

Running ==
    /\ stage = "Merging"
    /\ raised = "none"
    /\ stack # <<>>
    /\ ret = NoSummary

\* return summaries_to_merge[0]
merge_single ==
    /\ Running
    /\ Top.pc = "start"
    /\ IsSingle(Top.summaries_to_merge)
    /\ ret' = Top.summaries_to_merge[1]
    /\ stack' = Pop
    /\ UNCHANGED <<stage, max_context_size, all_files, sorted_files, idx, chunks,
                   current_chunk, current_tokens, chunk_summaries,
                   final_summary, result, raised, calls>>
    /\ UNCHANGED <<cancelled, gitvars, extvars>>

\* the context is too large: left_summary = merge_recursive([:mid], level)
merge_split ==
    /\ Running
    /\ Top.pc = "start"
    /\ ~IsSingle(Top.summaries_to_merge)
    /\ TooLarge(Top.summaries_to_merge)
    /\ Invoke(SetTop([Top EXCEPT !.pc = "left"]),
              LeftHalf(Top.summaries_to_merge), HalfLevel(Top.level),
              LeftHalf(Top.spans))
    /\ UNCHANGED <<stage, max_context_size, all_files, sorted_files, idx, chunks,
                   current_chunk, current_tokens, chunk_summaries, ret,
                   final_summary, result, calls>>
    /\ UNCHANGED <<cancelled, gitvars, extvars>>

\* the context fits: one chat_stream call, parsed or degraded
merge_call ==
    /\ Running
    /\ Top.pc = "start"
    /\ ~IsSingle(Top.summaries_to_merge)
    /\ ~TooLarge(Top.summaries_to_merge)
    /\ \E response \in MergeResponses(Top.level, Len(Top.summaries_to_merge)) :
        /\ ret' = merged_summary(Top.summaries_to_merge, Top.level, response)
        /\ calls' = Append(calls, [op |-> "merge", arg |-> Top.level,
                                   n |-> Len(Top.summaries_to_merge),
                                   context_tokens |-> context_tokens(Top.summaries_to_merge),
                                   response |-> response,
                                   span |-> Hull(Top.spans), inputs |-> Top.spans])
    /\ stack' = Pop
    /\ UNCHANGED <<stage, max_context_size, all_files, sorted_files, idx, chunks,
                   current_chunk, current_tokens, chunk_summaries,
                   final_summary, result, raised>>
    /\ UNCHANGED <<cancelled, gitvars, extvars>>

\* a nested invocation has returned into its caller
merge_resume ==
    /\ stage = "Merging"
    /\ raised = "none"
    /\ ret # NoSummary
    /\ stack # <<>>
    /\ CASE Top.pc = "left" ->
              \* right_summary = merge_recursive([mid:], level)
              /\ Invoke(SetTop([Top EXCEPT !.pc = "right", !.left_summary = ret]),
                        RightHalf(Top.summaries_to_merge), HalfLevel(Top.level),
                        RightHalf(Top.spans))
              /\ ret' = NoSummary
         [] Top.pc = "right" ->
              \* return merge_recursive([left_summary, right_summary], level + 1)
              /\ Invoke(SetTop([Top EXCEPT !.pc = "combine", !.right_summary = ret]),
                        <<Top.left_summary, ret>>, CombineLevel(Top.level),
                        <<Hull(LeftHalf(Top.spans)), Hull(RightHalf(Top.spans))>>)
              /\ ret' = NoSummary
         [] Top.pc = "combine" ->
              /\ stack' = Pop
              /\ UNCHANGED <<ret, raised>>
    /\ UNCHANGED <<stage, max_context_size, all_files, sorted_files, idx, chunks,
                   current_chunk, current_tokens, chunk_summaries,
                   final_summary, result, calls>>
    /\ UNCHANGED <<cancelled, gitvars, extvars>>

\* the outermost invocation has returned: final_summary is set
step4_finish ==
    /\ stage = "Merging"
    /\ raised = "none"
    /\ ret # NoSummary
    /\ stack = <<>>
    /\ final_summary' = ret
    /\ ret' = NoSummary
    /\ stage' = "Formatting"
    /\ UNCHANGED <<max_context_size, all_files, sorted_files, idx, chunks,
                   current_chunk, current_tokens, chunk_summaries, stack,
                   result, raised, calls>>
    /\ UNCHANGED <<cancelled, gitvars, extvars>>

(***************************************************************************)
(* STEP 5: _step5_format_results.                                          *)
(***************************************************************************)
\* final_summary.get(key, default)
Get(summary, key, value, default) == IF key \in summary.keys THEN value ELSE default

\* final_summary.get exists on a dict only
HasGet(summary) == summary.type = "object"

step5_format ==
    /\ stage = "Formatting"
    /\ raised = "none"
    /\ IF HasGet(final_summary)
       THEN /\ result' = [project_type |-> Get(final_summary, "project_type",
                                               final_summary.project_type, "unknown"),
                          technologies |-> Get(final_summary, "all_technologies",
                                               final_summary.all_technologies, {}),
                          total_files |-> Len(all_files),
                          total_tokens |-> SumTokens(all_files),
                          chunks_created |-> Len(chunks),
                          detailed_analysis |-> final_summary]
            /\ stage' = "Done"
            /\ UNCHANGED raised
       ELSE /\ raised' = "AttributeError"
            /\ UNCHANGED <<stage, result>>
    /\ UNCHANGED <<max_context_size, all_files, sorted_files, idx, chunks,
                   current_chunk, current_tokens, chunk_summaries, stack, ret,
                   final_summary, calls>>
    /\ UNCHANGED <<cancelled, gitvars, extvars>>

Next ==
    \/ step1_gather
    \/ step2_loop
    \/ step2_finish
    \/ step3_analyze_chunk
    \/ step4_begin
    \/ merge_single
    \/ merge_split
    \/ merge_call
    \/ merge_resume
    \/ step4_finish
    \/ step5_format

Spec == Init /\ [][Next]_vars

(***************************************************************************)
(* Cancellation.  The caller can ask for the run to stop at any moment     *)
(* before it has ended; analyze_repository and its steps take no such      *)
(* signal and test none, so the request changes nothing else.              *)
(***************************************************************************)
cancel ==
    /\ ~cancelled
    /\ stage # "Done"
    /\ raised = "none"
    /\ cancelled' = TRUE
    /\ UNCHANGED <<pvars, gitvars, extvars>>

CancelNext ==
    \/ Next
    \/ cancel

CancelSpec == Init /\ [][CancelNext]_vars

(***************************************************************************)
(* _step2_create_chunks on its own: it is a function of the gathered files *)
(* and of the chunk size, applied here to repositories of up to MaxUnits   *)
(* files of 100, 200 or 1000 tokens under chunk sizes 250 and 300.         *)
(***************************************************************************)
\* at most this many files are in a repository given to the chunker
MaxUnits == 5

\* a gathered file of the given path and content
Unit(p, content) ==
    [path |-> p, part |-> 0, total |-> 0,
     content |-> content, tokens |-> count_tokens(content)]

UnitContents == {Run(100, 1), Run(200, 1), Run(1000, 1)}

\* context windows whose chunk sizes are 250 and 300; on both,
\* int(x * 0.7) in floating point equals (x * 7) \div 10
ChunkerContextSizes == {1072, 1143}

RECURSIVE UnitsAscending(_, _)
\* the files of the repository c (a content for each of its paths), by path
UnitsAscending(c, i) ==
    IF i > Len(Paths) THEN <<>>
    ELSE (IF Paths[i] \in DOMAIN c THEN <<Unit(Paths[i], c[Paths[i]])>> ELSE <<>>)
         \o UnitsAscending(c, i + 1)

\* the non-empty file lists given to the chunker, in ascending or in
\* descending order of path
ChunkerInputs ==
    LET pool == {Paths[i] : i \in 1..Min(MaxUnits, Len(Paths))}
        repos == UNION {[P -> UnitContents] : P \in (SUBSET pool) \ {{}}}
    IN {UnitsAscending(c, 1) : c \in repos} \cup {Reverse(UnitsAscending(c, 1)) : c \in repos}

\* analyze_repository has gathered the files and entered _step2_create_chunks
ChunkInit ==
    /\ stage = "Chunking"
    /\ max_context_size \in ChunkerContextSizes
    /\ all_files \in ChunkerInputs
    /\ sorted_files = SortByPath(all_files)
    /\ idx = 1
    /\ chunks = <<>>
    /\ current_chunk = <<>>
    /\ current_tokens = 0
    /\ chunk_summaries = <<>>
    /\ stack = <<>>
    /\ ret = NoSummary
    /\ final_summary = NoSummary
    /\ result = NoResult
    /\ raised = "none"
    /\ calls = <<>>
    /\ cancelled = FALSE
    /\ repo_path = NoPath
    /\ git_log = <<>>
    /\ written = {}
    /\ git_result = NoCall
    /\ ExtIdle

ChunkNext ==
    \/ step2_loop
    \/ step2_finish

ChunkSpec == ChunkInit /\ [][ChunkNext]_vars

(***************************************************************************)
(* _step4_merge_summaries on its own: it is a function of the chunk        *)
(* summaries and of the capability's responses, applied here to up to      *)
(* MaxSummaries summaries.  The repository has one file of 3 tokens per    *)
(* chunk (two of them exceed either chunk size), and each chunk call was   *)
(* answered by a JSON object of which two fit a merge call and three do    *)
(* not, or by a short text that is not JSON.                               *)
(***************************************************************************)
\* at most this many chunk summaries are given to the merge
MaxSummaries == 5

\* the answers the chunk calls got
LeafResponses(chunk_index) ==
    {r \in ChunkResponses(chunk_index, 1) :
        \/ r.parsed.type = "error" /\ r.raw = Run(8, 1)
        \/ r.parsed.type = "object" /\ r.parsed.body = Run(150, 1)}

\* the state _step3_analyze_chunks has returned in, for n chunks of one
\* file each whose calls were answered by rs
MergeInitOf(n, rs) ==
    LET files == [i \in 1..n |-> Unit(Paths[i], Run(3, 1))]
        chs == [i \in 1..n |-> <<files[i]>>]
    IN /\ stage = "ChunkSummarizing"
       /\ all_files = files
       /\ sorted_files = files
       /\ idx = n + 1
       /\ chunks = chs
       /\ current_chunk = chs[n]
       /\ current_tokens = files[n].tokens
       /\ chunk_summaries = [i \in 1..n |-> analyze_single_chunk(chs[i], i, rs[i])]
       /\ calls = [i \in 1..n |->
                     [op |-> "chunk", arg |-> i, n |-> 1,
                      context_tokens |-> SumTokens(chs[i]), response |-> rs[i],
                      span |-> <<i, i>>, inputs |-> <<>>]]

MergeInit ==
    /\ max_context_size \in ContextSizes
    /\ \E n \in 1..Min(MaxSummaries, Len(Paths)) :
         \E rs \in [1..n -> UNION {LeafResponses(i) : i \in 1..n}] :
            /\ \A i \in 1..n : rs[i] \in LeafResponses(i)
            /\ MergeInitOf(n, rs)
    /\ stack = <<>>
    /\ ret = NoSummary
    /\ final_summary = NoSummary
    /\ result = NoResult
    /\ raised = "none"
    /\ cancelled = FALSE
    /\ repo_path = NoPath
    /\ git_log = <<>>
    /\ written = {}
    /\ git_result = NoCall
    /\ ExtIdle

MergeNext ==
    \/ step4_begin
    \/ merge_single
    \/ merge_split
    \/ merge_call
    \/ merge_resume
    \/ step4_finish

MergeSpec == MergeInit /\ [][MergeNext]_vars

(***************************************************************************)
(* The external calls of steps 3 and 4 together: the chunker has returned  *)
(* up to four chunks of one small file each, and every chunk call and      *)
(* every merge call gets any of the capability's responses.                *)
(***************************************************************************)
\* the files of these runs
CallPaths == SubSeq(Paths, 1, 4)

\* the state _step2_create_chunks has returned in, for n chunks of one file
CallInit ==
    /\ max_context_size \in ContextSizes
    /\ \E n \in 1..Len(CallPaths) :
         LET files == [i \in 1..n |-> Unit(CallPaths[i], Run(3, 1))] IN
            /\ all_files = files
            /\ sorted_files = files
            /\ idx = n + 1
            /\ chunks = [i \in 1..n |-> <<files[i]>>]
            /\ current_chunk = <<files[n]>>
            /\ current_tokens = files[n].tokens
    /\ stage = "ChunkSummarizing"
    /\ chunk_summaries = <<>>
    /\ calls = <<>>
    /\ stack = <<>>
    /\ ret = NoSummary
    /\ final_summary = NoSummary
    /\ result = NoResult
    /\ raised = "none"
    /\ cancelled = FALSE
    /\ repo_path = NoPath
    /\ git_log = <<>>
    /\ written = {}
    /\ git_result = NoCall
    /\ ExtIdle

CallNext ==
    \/ step3_analyze_chunk
    \/ step4_begin
    \/ merge_single
    \/ merge_split
    \/ merge_call
    \/ merge_resume
    \/ step4_finish

CallSpec == CallInit /\ [][CallNext]_vars

(***************************************************************************)
(* GitAutomator (src/src/gitllama/git_operations.py).  Each public method  *)
(* is one step; git itself is the environment: a command it is given       *)
(* succeeds or exits with an error.  git_result is the method called last  *)
(* with "ok" for a normal return or the name of the exception raised.      *)
(***************************************************************************)
\* the git commands and file writes of one GitAutomator are followed up to
\* this many commands
MaxGitLog == 4

GitUrls == {"https://host/owner/repo.git", "https://host/owner/tool/"}

\* git_url.rstrip('/').split('/')[-1], without a trailing ".git"
RepoName(git_url) ==
    CASE git_url = "https://host/owner/repo.git" -> "repo"
      [] git_url = "https://host/owner/tool/" -> "tool"

\* self.working_dir / repo_name
RepoDir(git_url) == "work/" \o RepoName(git_url)

BranchNames == {"gitllama-automation"}

\* branch = None, message = None
NoArg == "None"

Command(cmd, arg) == [cmd |-> cmd, arg |-> arg]

\* the entries _run_git_command adds to the history when the first n of
\* the commands succeed: the command after them, if any, fails and raises
Logged(cmds, n) ==
    [i \in 1..Min(n + 1, Len(cmds)) |->
        [cmd |-> cmds[i].cmd, arg |-> cmds[i].arg, ok |-> i <= n]]

\* the directory repo_path exists: a clone into it has succeeded
DirExists ==
    \E i \in DOMAIN git_log :
        /\ git_log[i].cmd = "clone"
        /\ git_log[i].ok
        /\ RepoDir(git_log[i].arg) = repo_path

\* work_dir = cwd or self.repo_path or self.working_dir exists
CwdExists == repo_path = NoPath \/ DirExists

\* the branch git reports as current
CurrentBranch ==
    LET done == {i \in DOMAIN git_log : git_log[i].cmd = "checkout" /\ git_log[i].ok}
    IN IF done = {} THEN "main"
       ELSE git_log[CHOOSE i \in done : \A j \in done : j <= i].arg

\* faulty variant: the test for a cloned repository is left out
Unset_Never(path) == FALSE

\* if not self.repo_path
Unset(path) == path = NoPath

\* a method that tests repo_path and then runs the commands cmds in
\* repo_path, stopping at the first that fails; subprocess.run raises
\* FileNotFoundError when its working directory does not exist
RunCommands(op, cmds) ==
    IF Unset(repo_path)
    THEN /\ git_result' = [op |-> op, outcome |-> "GitOperationError"]
         /\ UNCHANGED git_log
    ELSE IF ~CwdExists
    THEN /\ git_result' = [op |-> op, outcome |-> "FileNotFoundError"]
         /\ UNCHANGED git_log
    ELSE \E n \in 0..Len(cmds) :
              /\ git_log' = git_log \o Logged(cmds, n)
              /\ git_result' = [op |-> op,
                                outcome |-> IF n = Len(cmds) THEN "ok"
                                            ELSE "GitOperationError"]

\* the same for a method called on its own: the history of commands is
\* kept within MaxGitLog entries
RunGuarded(op, cmds) ==
    /\ (Unset(repo_path) \/ ~CwdExists \/ Len(git_log) + Len(cmds) <= MaxGitLog)
    /\ RunCommands(op, cmds)

\* the body of clone_repository: repo_path is set, then git clone runs in
\* working_dir
CloneInto(git_url) ==
    \E ok \in BOOLEAN :
        /\ repo_path' = RepoDir(git_url)
        /\ git_log' = Append(git_log, [cmd |-> "clone", arg |-> git_url, ok |-> ok])
        /\ git_result' = [op |-> "clone_repository",
                          outcome |-> IF ok THEN "ok" ELSE "GitOperationError"]

clone_repository ==
    /\ Len(git_log) + 1 <= MaxGitLog
    /\ \E git_url \in GitUrls : CloneInto(git_url)
    /\ UNCHANGED <<pvars, cancelled, extvars, written>>

checkout_branch ==
    /\ \E branch_name \in BranchNames :
        RunGuarded("checkout_branch", <<Command("checkout", branch_name)>>)
    /\ UNCHANGED <<pvars, cancelled, extvars, repo_path, written>>

\* gitllama_was_here.txt is written into repo_path; open() raises
\* FileNotFoundError when the directory does not exist
WriteFile ==
    IF Unset(repo_path)
    THEN /\ git_result' = [op |-> "make_changes", outcome |-> "GitOperationError"]
         /\ UNCHANGED written
    ELSE IF ~DirExists
    THEN /\ git_result' = [op |-> "make_changes", outcome |-> "FileNotFoundError"]
         /\ UNCHANGED written
    ELSE /\ written' = written \cup {repo_path \o "/gitllama_was_here.txt"}
         /\ git_result' = [op |-> "make_changes", outcome |-> "ok"]

make_changes ==
    /\ WriteFile
    /\ UNCHANGED <<pvars, cancelled, extvars, repo_path, git_log>>

CommitMessages == {NoArg, "fix"}

\* git add ., git commit -m message, git rev-parse HEAD
CommitCommands(message) ==
    <<Command("add", "."),
      Command("commit", IF message = NoArg
                        THEN "Automated changes by GitLlama"
                        ELSE message),
      Command("rev-parse", "HEAD")>>

commit_changes ==
    /\ \E message \in CommitMessages :
        RunGuarded("commit_changes", CommitCommands(message))
    /\ UNCHANGED <<pvars, cancelled, extvars, repo_path, written>>

\* git branch --show-current if no branch is given, then git push origin
PushCommands(branch) ==
    IF branch = NoArg
    THEN <<Command("branch", "--show-current"), Command("push", CurrentBranch)>>
    ELSE <<Command("push", branch)>>

push_changes ==
    /\ \E branch \in BranchNames \cup {NoArg} :
        RunGuarded("push_changes", PushCommands(branch))
    /\ UNCHANGED <<pvars, cancelled, extvars, repo_path, written>>

GitNext ==
    \/ clone_repository
    \/ checkout_branch
    \/ make_changes
    \/ commit_changes
    \/ push_changes

GitSpec == Init /\ [][GitNext]_vars

(***************************************************************************)
(* run_full_workflow on a fresh GitAutomator: the five methods in turn     *)
(* inside one try block.  workflow.done lists the steps entered so far.    *)
(***************************************************************************)
WorkflowSteps == <<"clone", "checkout", "make_changes", "commit", "push">>

\* the branch names run_full_workflow is called with
WorkflowBranches == {"gitllama-automation", "feature/docs", "fix/typo"}

\* faulty variant: an exception raised in a step is swallowed
Failed_Never(outcome) == FALSE

\* the method called in a step raised
Failed(outcome) == outcome # "ok"

\* the step's method has been called: on an exception the except clause
\* returns success False with the error, otherwise the next step follows;
\* after the last step the success dict is returned
AfterStep(step, next, outcome) ==
    IF Failed(outcome)
    THEN [workflow EXCEPT !.pc = "returned", !.success = FALSE, !.error = outcome,
                          !.done = Append(@, step)]
    ELSE IF next = "returned"
    THEN [workflow EXCEPT !.pc = "returned", !.success = TRUE, !.done = Append(@, step)]
    ELSE [workflow EXCEPT !.pc = next, !.done = Append(@, step)]

run_full_workflow ==
    /\ workflow.pc = "idle"
    /\ \E git_url \in GitUrls, branch_name \in WorkflowBranches, message \in CommitMessages :
         workflow' = [workflow EXCEPT !.pc = "clone", !.git_url = git_url,
                                      !.branch_name = branch_name,
                                      !.commit_message = message]
    /\ UNCHANGED <<pvars, cancelled, gitvars, brvars, selvars, trimvars>>

\* Step 1: repo_path = self.clone_repository(git_url)
wf_clone ==
    /\ workflow.pc = "clone"
    /\ CloneInto(workflow.git_url)
    /\ workflow' = AfterStep("clone", "checkout", git_result'.outcome)
    /\ UNCHANGED <<pvars, cancelled, written, brvars, selvars, trimvars>>

\* Step 2: self.checkout_branch(branch_name)
wf_checkout ==
    /\ workflow.pc = "checkout"
    /\ RunCommands("checkout_branch", <<Command("checkout", workflow.branch_name)>>)
    /\ workflow' = AfterStep("checkout", "make_changes", git_result'.outcome)
    /\ UNCHANGED <<pvars, cancelled, repo_path, written, brvars, selvars, trimvars>>

\* Step 3: modified_files = self.make_changes()
wf_make_changes ==
    /\ workflow.pc = "make_changes"
    /\ WriteFile
    /\ workflow' = AfterStep("make_changes", "commit", git_result'.outcome)
    /\ UNCHANGED <<pvars, cancelled, repo_path, git_log, brvars, selvars, trimvars>>

\* Step 4: commit_hash = self.commit_changes(commit_message)
wf_commit ==
    /\ workflow.pc = "commit"
    /\ RunCommands("commit_changes", CommitCommands(workflow.commit_message))
    /\ workflow' = AfterStep("commit", "push", git_result'.outcome)
    /\ UNCHANGED <<pvars, cancelled, repo_path, written, brvars, selvars, trimvars>>

\* Step 5: push_output = self.push_changes(branch=branch_name)
wf_push ==
    /\ workflow.pc = "push"
    /\ RunCommands("push_changes", PushCommands(workflow.branch_name))
    /\ workflow' = AfterStep("push", "returned", git_result'.outcome)
    /\ UNCHANGED <<pvars, cancelled, repo_path, written, brvars, selvars, trimvars>>

WorkflowNext ==
    \/ run_full_workflow
    \/ wf_clone
    \/ wf_checkout
    \/ wf_make_changes
    \/ wf_commit
    \/ wf_push

WorkflowSpec == Init /\ [][WorkflowNext]_vars

(***************************************************************************)
(* analyze_all_branches.  The repository has some of the branches of       *)
(* BranchPool, one of them checked out; git is the environment: a checkout *)
(* succeeds or fails, and the listing of the branches comes in any order.  *)
(* An analysis is recorded as the branch name it is stored for together    *)
(* with the branch whose working tree analyze_repository read.             *)
(***************************************************************************)
\* at most this many branches are in the repository
MaxBranches == 3

BranchPool == {"main", "develop", "feature/a", "fix/b"}

\* the set of the elements of a sequence
Range(s) == {s[i] : i \in DOMAIN s}

\* the listings of at most MaxBranches distinct branches, in any order
BranchLists ==
    {l \in UNION {[1..n -> BranchPool] : n \in 1..Min(MaxBranches, Cardinality(BranchPool))} :
        Cardinality(Range(l)) = Len(l)}

\* where git checkout can leave the repository: on the branch, or, when
\* the command fails, where it was (_checkout_branch then returns False)
CheckoutOutcomes(from, branch) == {branch, from}

\* analyze_all_branches is about to be called on a repository
BranchInit ==
    /\ stage = "Gathering"
    /\ max_context_size \in ContextSizes
    /\ all_files = <<>>
    /\ sorted_files = <<>>
    /\ idx = 0
    /\ chunks = <<>>
    /\ current_chunk = <<>>
    /\ current_tokens = 0
    /\ chunk_summaries = <<>>
    /\ stack = <<>>
    /\ ret = NoSummary
    /\ final_summary = NoSummary
    /\ result = NoResult
    /\ raised = "none"
    /\ calls = <<>>
    /\ cancelled = FALSE
    /\ repo_path = NoPath
    /\ git_log = <<>>
    /\ written = {}
    /\ git_result = NoCall
    /\ WorkflowIdle
    /\ SelectIdle
    /\ TrimIdle
    /\ head \in BranchPool
    /\ current_branch = "none"
    /\ all_branches = <<>>
    /\ bidx = 0
    /\ branch_analyses = <<>>
    /\ br_stage = "idle"

\* current_branch and all_branches are read from git; either command can
\* fail, giving "unknown" or the empty list
ab_start ==
    /\ br_stage = "idle"
    /\ current_branch' \in {head, "unknown"}
    /\ all_branches' \in {l \in BranchLists : head \in Range(l)} \cup {<<>>}
    /\ bidx' = 1
    /\ br_stage' = "loop"
    /\ UNCHANGED <<pvars, cancelled, gitvars, workflow, selvars, trimvars,
                   head, branch_analyses>>

\* if branch != current_branch
NeedsCheckout(branch, current) == branch # current

\* one pass of the loop: the branch is checked out unless it is
\* current_branch, then analyze_repository runs on the working tree and
\* its result is stored under the branch name, unless it raises
ab_iterate ==
    /\ br_stage = "loop"
    /\ bidx <= Len(all_branches)
    /\ LET branch == all_branches[bidx] IN
         /\ head' \in (IF NeedsCheckout(branch, current_branch)
                       THEN CheckoutOutcomes(head, branch) ELSE {head})
         /\ \/ /\ branch_analyses' =
                      (branch :> [branch |-> branch, tree |-> head']) @@ branch_analyses
               /\ bidx' = bidx + 1
               /\ UNCHANGED br_stage
            \/ /\ br_stage' = "raised"
               /\ UNCHANGED <<branch_analyses, bidx>>
    /\ UNCHANGED <<pvars, cancelled, gitvars, workflow, selvars, trimvars,
                   current_branch, all_branches>>

\* the loop is over: the original branch is checked out again if it is
\* among the branches, and (current_branch, branch_analyses) is returned
ab_finish ==
    /\ br_stage = "loop"
    /\ bidx > Len(all_branches)
    /\ head' \in (IF current_branch \in Range(all_branches)
                  THEN CheckoutOutcomes(head, current_branch) ELSE {head})
    /\ br_stage' = "returned"
    /\ UNCHANGED <<pvars, cancelled, gitvars, workflow, selvars, trimvars,
                   current_branch, all_branches, bidx, branch_analyses>>

BranchNext ==
    \/ ab_start
    \/ ab_iterate
    \/ ab_finish

BranchSpec == BranchInit /\ [][BranchNext]_vars

(***************************************************************************)
(* BranchAnalyzer.analyze_and_select_branch.  A branch name is the         *)
(* sequence of its characters, so that lower, strip, replace, startswith,  *)
(* the substring test and split are computed as Python computes them.      *)
(***************************************************************************)
\* str.lower() on the letters that occur in the names below
LowerChar(c) ==
    CASE c = "M" -> "m"
      [] c = "D" -> "d"
      [] c = "F" -> "f"
      [] OTHER -> c

Lower(name) == [i \in DOMAIN name |-> LowerChar(name[i])]

IsSpace(c) == c \in {" ", "\n"}

RECURSIVE LStrip(_)
LStrip(name) ==
    IF name # <<>> /\ IsSpace(Head(name)) THEN LStrip(Tail(name)) ELSE name

RECURSIVE RStrip(_)
RStrip(name) ==
    IF name # <<>> /\ IsSpace(name[Len(name)])
    THEN RStrip(SubSeq(name, 1, Len(name) - 1)) ELSE name

\* str.strip()
Strip(name) == RStrip(LStrip(name))

\* str.replace(' ', '-')
ReplaceSpaces(name) == [i \in DOMAIN name |-> IF name[i] = " " THEN "-" ELSE name[i]]

\* str.startswith(prefix)
StartsWith(name, prefix) ==
    Len(prefix) <= Len(name) /\ SubSeq(name, 1, Len(prefix)) = prefix

\* part in name
Contains(name, part) ==
    \E i \in 1..(Len(name) - Len(part) + 1) : SubSeq(name, i, i + Len(part) - 1) = part

\* c.isalnum()
IsAlnum(c) ==
    c \in {"a", "b", "c", "d", "e", "f", "g", "h", "i", "j", "k", "l", "m", "n", "o",
           "p", "q", "r", "s", "t", "u", "v", "w", "x", "y", "z", "M", "D", "F",
           "0", "1", "2", "3", "4", "5", "6", "7", "8", "9"}

\* ''.join(c if c.isalnum() or c in ['-', '/'] else '-' for c in branch_name)
Sanitize(name) ==
    [i \in DOMAIN name |-> IF IsAlnum(name[i]) \/ name[i] \in {"-", "/"}
                           THEN name[i] ELSE "-"]

\* branch_name.split('/')[-1]
LastSegment(name) ==
    LET slashes == {i \in DOMAIN name : name[i] = "/"}
    IN IF slashes = {} THEN name
       ELSE SubSeq(name, (CHOOSE i \in slashes : \A j \in slashes : j <= i) + 1, Len(name))

\* f"{branch_type}/{rest}"
Prefixed(branch_type, rest) == branch_type \o <<"/">> \o rest

N_main == <<"m", "a", "i", "n">>
N_master == <<"m", "a", "s", "t", "e", "r">>
N_develop == <<"d", "e", "v", "e", "l", "o", "p">>
N_development == <<"d", "e", "v", "e", "l", "o", "p", "m", "e", "n", "t">>
N_feature == <<"f", "e", "a", "t", "u", "r", "e">>
N_fix == <<"f", "i", "x">>

\* faulty variant: the protected names are compared as they are written
IsProtected_CaseSensitive(branch_name) ==
    branch_name \in {N_main, N_master, N_develop, N_development}

\* branch_name.lower() in ['main', 'master', 'develop', 'development']
IsProtected(branch_name) ==
    Lower(branch_name) \in {N_main, N_master, N_develop, N_development}

\* the branches a repository can have
BranchCatalog ==
    <<N_main, <<"M", "a", "s", "t", "e", "r">>, <<"D", "e", "v", "e", "l", "o", "p", "m", "e", "n", "t">>, <<"f", "e", "a", "t", "u", "r", "e", "/", "w", "i", "p">>, <<"f", "i", "x", "/", "a">>, <<"o", "l", "d">>>>

\* what the analysis of a branch says: a library in python (as project_info
\* does), a command line tool, or no analyzable files
SummaryKinds == {"library", "cli", "empty"}

\* project_info of the current branch
project_info == [project_type |-> "library", technologies |-> {"python"}]

\* the summary of a branch of the given kind
BranchSummary(kind) ==
    [project_type |-> kind,
     technologies |-> IF kind = "library" THEN {"python"} ELSE {}]

\* the branch_summaries the selection can be given: at most MaxBranches
\* branches of the catalog, in its order, each with a summary
SelectInputs ==
    {l \in UNION {[1..n -> [branch_name : Range(BranchCatalog), kind : SummaryKinds]] :
                     n \in 1..Min(MaxBranches, Len(BranchCatalog))} :
        \A i, j \in DOMAIN l :
            i < j => \E a, b \in DOMAIN BranchCatalog :
                        /\ a < b
                        /\ BranchCatalog[a] = l[i].branch_name
                        /\ BranchCatalog[b] = l[j].branch_name}

\* _step1_analyze_branch_purposes, for one branch
Purpose(entry) ==
    IF entry.kind = "empty"
    THEN [purpose |-> "empty", project_type |-> "none", technologies |-> {}]
    ELSE [purpose |-> "unknown", project_type |-> BranchSummary(entry.kind).project_type,
          technologies |-> BranchSummary(entry.kind).technologies]

AnyIn(parts, name) == \E part \in parts : Contains(name, part)

\* the reuse score of _step2_evaluate_reuse_potential
Score(branch_name, purpose_info) ==
    LET branch_lower == Lower(branch_name)
        overlap == Cardinality(purpose_info.technologies \cap project_info.technologies)
    IN (IF purpose_info.project_type = project_info.project_type THEN 30 ELSE 0)
       + (IF AnyIn({<<"f", "e", "a", "t", "u", "r", "e", "/">>, <<"f", "e", "a", "t", "/">>, <<"e", "n", "h", "a", "n", "c", "e", "/">>, <<"i", "m", "p", "r", "o", "v", "e", "/">>}, branch_lower) THEN 20
          ELSE IF AnyIn({<<"f", "i", "x", "/">>, <<"b", "u", "g", "f", "i", "x", "/">>, <<"h", "o", "t", "f", "i", "x", "/">>}, branch_lower) THEN 15
          ELSE IF AnyIn({<<"d", "o", "c", "s", "/">>, <<"d", "o", "c", "u", "m", "e", "n", "t", "a", "t", "i", "o", "n", "/">>}, branch_lower) THEN 10
          ELSE 0)
       + (IF AnyIn({<<"w", "i", "p">>, <<"d", "r", "a", "f", "t">>, <<"e", "x", "p", "e", "r", "i", "m", "e", "n", "t", "a", "l">>, <<"t", "e", "s", "t">>}, branch_lower) THEN 25 ELSE 0)
       + (IF AnyIn({<<"o", "l", "d">>, <<"s", "t", "a", "l", "e">>, <<"a", "b", "a", "n", "d", "o", "n", "e", "d">>, <<"t", "e", "m", "p">>}, branch_lower) THEN 15 ELSE 0)
       + (IF overlap > 0 THEN Min(overlap * 5, 20) ELSE 0)

RECURSIVE InsertByScore(_, _)
\* the place a stable descending sort gives a candidate: after every
\* candidate whose score is not lower
InsertByScore(c, sorted) ==
    IF sorted = <<>> THEN <<c>>
    ELSE IF Head(sorted).score >= c.score
    THEN <<Head(sorted)>> \o InsertByScore(c, Tail(sorted))
    ELSE <<c>> \o sorted

RECURSIVE Candidates(_)
\* the candidates of the first branches of the input, sorted by score
Candidates(input) ==
    IF input = <<>> THEN <<>>
    ELSE LET entry == input[Len(input)]
             before == Candidates(SubSeq(input, 1, Len(input) - 1))
             purpose_info == Purpose(entry)
             score == Score(entry.branch_name, purpose_info)
         IN IF IsProtected(entry.branch_name) THEN before
            ELSE IF purpose_info.purpose = "empty" THEN before
            ELSE IF score > 0
            THEN InsertByScore([branch_name |-> entry.branch_name, score |-> score], before)
            ELSE before

\* selected_branch: null
Null == <<"null">>

\* what json.loads makes of the model's answer to the decision prompt
Decision(type, keys, decision_, selected_branch, new_branch_type) ==
    [type |-> type, keys |-> keys, decision |-> decision_,
     selected_branch |-> selected_branch, new_branch_type |-> new_branch_type]

\* the answers to the decision prompt: no JSON, a JSON list, and objects
\* that name a protected branch, a branch, no branch, a branch type, no
\* decision at all or an unknown one
DecisionResponses ==
    {Decision("error", {}, "", Null, <<>>),
     Decision("list", {}, "", Null, <<>>),
     Decision("dict", {"decision", "selected_branch"}, "REUSE", N_main, <<>>),
     Decision("dict", {"decision", "selected_branch"}, "REUSE", <<"f", "i", "x", "/", "a">>, <<>>),
     Decision("dict", {"decision", "selected_branch"}, "REUSE", Null, <<>>),
     Decision("dict", {"decision", "new_branch_type"}, "CREATE", Null, N_fix),
     Decision("dict", {"decision"}, "CREATE", Null, <<>>),
     Decision("dict", {"new_branch_type"}, "", Null, N_main),
     Decision("dict", {"decision", "new_branch_type"}, "MAYBE", Null, N_main)}

\* the answers to the branch name prompt
NameResponses ==
    {N_main, <<"M", "a", "i", "n">>, <<" ", "m", "a", "s", "t", "e", "r", "\n">>, <<"f", "e", "a", "t", "u", "r", "e", "/", "m", "a", "i", "n">>, <<"f", "i", "x", "/", "d", "e", "v", "e", "l", "o", "p">>,
     <<"m", "a", "i", "n", "/">>, <<"m", "a", "i", "n", "!">>, <<>>, N_development, <<"a", "d", "d", " ", "t", "e", "s", "t", "s">>, <<"f", "e", "a", "t", "u", "r", "e", "/", "a", "d", "d", "-", "t", "e", "s", "t", "s">>}

SelectInit ==
    /\ stage = "Gathering"
    /\ max_context_size \in ContextSizes
    /\ all_files = <<>>
    /\ sorted_files = <<>>
    /\ idx = 0
    /\ chunks = <<>>
    /\ current_chunk = <<>>
    /\ current_tokens = 0
    /\ chunk_summaries = <<>>
    /\ stack = <<>>
    /\ ret = NoSummary
    /\ final_summary = NoSummary
    /\ result = NoResult
    /\ raised = "none"
    /\ calls = <<>>
    /\ cancelled = FALSE
    /\ repo_path = NoPath
    /\ git_log = <<>>
    /\ written = {}
    /\ git_result = NoCall
    /\ WorkflowIdle
    /\ BranchIdle
    /\ TrimIdle
    /\ sel_stage = "idle"
    /\ sel_input \in SelectInputs
    /\ reuse_candidates = <<>>
    /\ decision = <<>>
    /\ final_branch = <<>>

\* STEP 1 and STEP 2: the purposes of the branches and the reuse candidates
sel_evaluate ==
    /\ sel_stage = "idle"
    /\ reuse_candidates' = Candidates(sel_input)
    /\ sel_stage' = "decide"
    /\ UNCHANGED <<pvars, cancelled, gitvars, workflow, brvars, trimvars,
                   sel_input, decision, final_branch>>

reuse_threshold == 30

has_good_candidates ==
    \E i \in DOMAIN reuse_candidates : reuse_candidates[i].score >= reuse_threshold

\* the decision that takes the best candidate
ReuseBest == Decision("dict", {"decision", "selected_branch"}, "REUSE",
                      reuse_candidates[1].branch_name, <<>>)

\* STEP 3: the model's answer is parsed; a CREATE answer is overridden at
\* random when there are good candidates; an answer that is not JSON gives
\* the fallback decision; an answer without .get or without 'decision'
\* raises out of analyze_and_select_branch
sel_decide ==
    /\ sel_stage = "decide"
    /\ \E response \in DecisionResponses :
         CASE response.type = "error" ->
                /\ decision' = IF reuse_candidates # <<>>
                                  /\ reuse_candidates[1].score >= reuse_threshold
                               THEN ReuseBest
                               ELSE Decision("dict", {"decision", "new_branch_type"},
                                             "CREATE", Null, N_feature)
                /\ sel_stage' = "finalize"
           [] response.type = "list" ->
                /\ sel_stage' = "raised"
                /\ UNCHANGED decision
           [] response.type = "dict" ->
                \E override \in BOOLEAN :
                   LET decided == IF /\ has_good_candidates
                                     /\ "decision" \in response.keys
                                     /\ response.decision = "CREATE"
                                     /\ override
                                  THEN ReuseBest ELSE response
                   IN IF "decision" \in decided.keys
                      THEN /\ decision' = decided
                           /\ sel_stage' = "finalize"
                      ELSE /\ sel_stage' = "raised"
                           /\ UNCHANGED decision
    /\ UNCHANGED <<pvars, cancelled, gitvars, workflow, brvars, trimvars,
                   sel_input, reuse_candidates, final_branch>>

candidate_names == {reuse_candidates[i].branch_name : i \in DOMAIN reuse_candidates}

\* the name made of the model's answer to the branch name prompt
NewBranchName(branch_type, response) ==
    LET stripped == ReplaceSpaces(Lower(Strip(response)))
        prefixed == IF StartsWith(stripped, branch_type \o <<"/">>) THEN stripped
                    ELSE Prefixed(branch_type, stripped)
        branch_name == Sanitize(prefixed)
    IN IF LastSegment(branch_name) \in {N_main, N_master, N_develop}
       THEN Prefixed(branch_type, <<"g", "i", "t", "l", "l", "a", "m", "a", "-", "e", "n", "h", "a", "n", "c", "e", "m", "e", "n", "t">>)
       ELSE branch_name

\* STEP 4: a REUSE decision is checked against the candidates, with the
\* best candidate as fallback; otherwise a name is asked for and sanitized
sel_finalize ==
    /\ sel_stage = "finalize"
    /\ IF decision.decision = "REUSE" /\ reuse_candidates # <<>>
       THEN final_branch' =
               [branch_name |-> IF decision.selected_branch \in candidate_names
                                THEN decision.selected_branch
                                ELSE reuse_candidates[1].branch_name,
                action |-> "REUSE"]
       ELSE \E response \in NameResponses :
               final_branch' =
                  [branch_name |-> NewBranchName(IF "new_branch_type" \in decision.keys
                                                 THEN decision.new_branch_type
                                                 ELSE N_feature, response),
                   action |-> "CREATE"]
    /\ sel_stage' = "returned"
    /\ UNCHANGED <<pvars, cancelled, gitvars, workflow, brvars, trimvars,
                   sel_input, reuse_candidates, decision>>

SelectNext ==
    \/ sel_evaluate
    \/ sel_decide
    \/ sel_finalize

SelectSpec == SelectInit /\ [][SelectNext]_vars

(***************************************************************************)
(* trim_messages (ollama_client.py).  A message is a dict of role and      *)
(* content; tiktoken's encoding of a role name is one token and that of a  *)
(* content is the token weight of the text.                                *)
(***************************************************************************)
\* at most this many messages are in the history
MaxMessages == 4

Messages ==
    {[role |-> "system", content |-> Run(5, 1)],
     [role |-> "user", content |-> Run(10, 1)],
     [role |-> "assistant", content |-> Run(50, 1)]}

MessageLists == UNION {[1..n -> Messages] : n \in 0..MaxMessages}

Limits == {0, 3, 25, 40, 100}

\* 4 per message and the encoded length of each of its values
message_tokens(message) == 4 + 1 + count_tokens(message.content)

RECURSIVE messages_tokens(_)
messages_tokens(msgs) ==
    IF msgs = <<>> THEN 0 ELSE message_tokens(Head(msgs)) + messages_tokens(Tail(msgs))

\* count_tokens(messages) of ollama_client.py: the messages and 3 tokens
\* that prime the reply
count_message_tokens(msgs) == messages_tokens(msgs) + 3

\* faulty variant: the first message is removed, messages.pop(0)
Popped_First(msgs) == Tail(msgs)

\* messages.pop(1)
Popped(msgs) == <<msgs[1]>> \o SubSeq(msgs, 3, Len(msgs))

\* trim_messages has been called with a list and a limit
TrimInit ==
    /\ stage = "Gathering"
    /\ max_context_size \in ContextSizes
    /\ all_files = <<>>
    /\ sorted_files = <<>>
    /\ idx = 0
    /\ chunks = <<>>
    /\ current_chunk = <<>>
    /\ current_tokens = 0
    /\ chunk_summaries = <<>>
    /\ stack = <<>>
    /\ ret = NoSummary
    /\ final_summary = NoSummary
    /\ result = NoResult
    /\ raised = "none"
    /\ calls = <<>>
    /\ cancelled = FALSE
    /\ repo_path = NoPath
    /\ git_log = <<>>
    /\ written = {}
    /\ git_result = NoCall
    /\ WorkflowIdle
    /\ BranchIdle
    /\ SelectIdle
    /\ given_messages \in MessageLists
    /\ messages = given_messages
    /\ trim_max_tokens \in Limits
    /\ trim_stage = "loop"

\* while count_tokens(messages) > max_tokens
OverLimit == count_message_tokens(messages) > trim_max_tokens

\* the loop's body when len(messages) > 1
trim_pop ==
    /\ trim_stage = "loop"
    /\ OverLimit
    /\ Len(messages) > 1
    /\ messages' = Popped(messages)
    /\ UNCHANGED <<pvars, cancelled, gitvars, workflow, brvars, selvars,
                   trim_max_tokens, given_messages, trim_stage>>

\* the loop ends, by its condition or by break: return messages
trim_return ==
    /\ trim_stage = "loop"
    /\ ~OverLimit \/ Len(messages) <= 1
    /\ trim_stage' = "returned"
    /\ UNCHANGED <<pvars, cancelled, gitvars, workflow, brvars, selvars,
                   messages, trim_max_tokens, given_messages>>

TrimNext ==
    \/ trim_pop
    \/ trim_return

TrimSpec == TrimInit /\ [][TrimNext]_vars

\* the interpreter keeps running the function: a step that can be taken is
\* taken
TrimFairSpec == TrimSpec /\ WF_vars(TrimNext)

(***************************************************************************)
(* Properties.                                                             *)
(***************************************************************************)
\* the number of external merge calls made so far
MergeCalls == Cardinality({i \in DOMAIN calls : calls[i].op = "merge"})

\* the chunker has returned and there was something to chunk
Chunked == stage \notin {"Gathering", "Chunking"} /\ all_files # <<>>

\* C1: merge_recursive terminates with one summary for every list of
\* summaries and every behaviour of the capability: no merge recurses until
\* the interpreter gives up with RecursionError.
C1_MergeTerminates == raised # "RecursionError"

\* an exhausted stack is a genuine divergence, not an effect of MaxDepth:
\* the top invocation repeats the list of an invocation below it, which it
\* can only reach again
C1_OverflowRepeats ==
    raised = "RecursionError" =>
        \E i, j \in DOMAIN stack :
            /\ i < j
            /\ stack[i].summaries_to_merge = stack[j].summaries_to_merge
            /\ stack[i].pc = "combine"
            /\ stack[j].pc = "combine"

\* C2: analyze_repository never raises, whatever the capability returns:
\* a bad chunk or merge response never aborts the pipeline.
C2_AnalyzeNeverRaises == raised = "none"

\* C3: every chunk the chunker returns, the singleton chunks of a split file
\* included, has total cost <= chunk_size.
C3_ChunksWithinChunkSize ==
    \A i \in DOMAIN chunks : SumTokens(chunks[i]) <= chunk_size

RECURSIVE Flatten(_)
\* the chunks concatenated in order
Flatten(chs) == IF chs = <<>> THEN <<>> ELSE Head(chs) \o Flatten(Tail(chs))

RECURSIVE PartsText(_, _)
\* the contents of the entries of flat that carry path p, concatenated
PartsText(flat, p) ==
    IF flat = <<>> THEN <<>>
    ELSE (IF Head(flat).path = p THEN Head(flat).content ELSE <<>>)
         \o PartsText(Tail(flat), p)

\* C4: the chunks concatenated in order are the input files in path order;
\* a file that fits appears once, unchanged; an oversized file appears as
\* the contiguous run of its parts 1..total, each alone in its chunk, whose
\* contents concatenate to the file's content; nothing is lost, duplicated
\* or added.
C4_ChunksPartitionInput ==
    Chunked =>
        LET flat == Flatten(chunks) IN
        /\ \A i \in 1..(Len(flat) - 1) :
              \/ PathRank(flat[i].path) < PathRank(flat[i + 1].path)
              \/ /\ flat[i].path = flat[i + 1].path
                 /\ flat[i].part >= 1
                 /\ flat[i + 1].part = flat[i].part + 1
        /\ \A i \in DOMAIN flat : \E k \in DOMAIN all_files : all_files[k].path = flat[i].path
        /\ \A i \in DOMAIN chunks : \A j \in DOMAIN chunks[i] :
              chunks[i][j].part >= 1 => Len(chunks[i]) = 1
        /\ \A k \in DOMAIN all_files :
              LET f == all_files[k]
                  occ == {i \in DOMAIN flat : flat[i].path = f.path}
              IN IF f.tokens > chunk_size
                 THEN /\ occ # {}
                      /\ {flat[i].part : i \in occ} = 1..Cardinality(occ)
                      /\ \A i \in occ : flat[i].total = Cardinality(occ)
                      /\ Chars(PartsText(flat, f.path)) = Chars(f.content)
                 ELSE /\ Cardinality(occ) = 1
                      /\ \A i \in occ : flat[i] = f

\* C4 witness: an unsorted input holding a file that is split and one that
\* is not has been chunked
C4_Witness ==
    /\ stage = "ChunkSummarizing"
    /\ Len(all_files) = 2
    /\ PathRank(all_files[1].path) > PathRank(all_files[2].path)
    /\ \E k \in DOMAIN all_files : all_files[k].tokens > chunk_size
    /\ \E k \in DOMAIN all_files : all_files[k].tokens <= chunk_size

\* C5: merging n >= 1 summaries makes at most n - 1 external merge calls,
\* in every state of the recursion.
C5_MergeCallBound ==
    (stage \in {"Merging", "Formatting", "Done"} /\ all_files # <<>>)
        => MergeCalls <= Len(chunk_summaries) - 1

\* C5 witness: a merge of 3 summaries that had to split has returned after
\* exactly 2 calls
C5_Witness ==
    /\ stage = "Formatting"
    /\ Len(chunk_summaries) = 3
    /\ MergeCalls = 2

\* C6: an invocation of merge_recursive on a one-element list returns that
\* element itself and makes no external call, at any level and whatever
\* the element's size.
C6_SingletonIdentity ==
    [][(/\ stage = "Merging"
        /\ raised = "none"
        /\ stack # <<>>
        /\ ret = NoSummary
        /\ Top.pc = "start"
        /\ Len(Top.summaries_to_merge) = 1)
       => (/\ ret' = Top.summaries_to_merge[1]
           /\ stack' = Pop
           /\ calls' = calls
           /\ raised' = raised)]_vars

\* C6 witness: at a level above 1, the one-element left slice of a list too
\* large for the budget has just been returned, and no merge call was made
C6_Witness ==
    /\ stage = "Merging"
    /\ stack # <<>>
    /\ Top.pc = "left"
    /\ Top.level > 1
    /\ Len(Top.summaries_to_merge) = 2
    /\ ret = Top.summaries_to_merge[1]
    /\ count_tokens(dumps(ret)) > usable_context_size
    /\ MergeCalls = 0

\* C7: when gathering yields no file, analyze_repository returns the
\* canonical empty result at once: no chunk, no summary, no merge, no
\* formatting and no call of the capability.
C7_EmptyShortCircuit ==
    (stage # "Gathering" /\ all_files = <<>>) =>
        /\ stage = "Done"
        /\ result.project_type = "empty"
        /\ result.total_files = 0
        /\ result.total_tokens = 0
        /\ result.chunks_created = 0
        /\ calls = <<>>
        /\ chunks = <<>>
        /\ chunk_summaries = <<>>
        /\ stack = <<>>
        /\ final_summary = NoSummary
        /\ raised = "none"

\* C7 witness: a run on an empty repository is over
C7_Witness == stage = "Done" /\ all_files = <<>> /\ result.project_type = "empty"

\* the structured fields of a chunk summary
StructuredKeys == {"main_purpose", "technologies", "patterns", "quality_notes", "key_features"}

\* chunk i was answered with text json.loads rejects
ChunkUnparsed(i) ==
    /\ i \in DOMAIN chunk_summaries
    /\ calls[i].op = "chunk"
    /\ calls[i].response.parsed.type = "error"

\* the summary of chunk i has no structured field and its raw_analysis is
\* the first 500 characters of the response
DegradedFromRaw(i) ==
    LET s == chunk_summaries[i]
        raw == calls[i].response.raw
    IN /\ s.type = "object"
       /\ s.keys \cap StructuredKeys = {}
       /\ "raw_analysis" \in s.keys
       /\ len(s.raw_analysis) = Min(len(raw), 500)
       /\ Take(raw, len(s.raw_analysis)) = s.raw_analysis

\* C8 as claimed: an unparseable chunk response gives, without raising, a
\* summary without structured fields whose raw_analysis is non-empty and
\* holds the first 500 characters of the response.
C8_DegradedNotesNonEmpty ==
    \A i \in DOMAIN chunk_summaries :
        ChunkUnparsed(i) =>
            /\ DegradedFromRaw(i)
            /\ len(chunk_summaries[i].raw_analysis) > 0

\* C8 amended: an unparseable chunk response gives, without raising, a
\* summary without structured fields whose raw_analysis holds the first 500
\* characters of the response; it is non-empty exactly when the response is.
C8_DegradedKeepsRawPrefix ==
    /\ stage = "ChunkSummarizing" => raised = "none"
    /\ \A i \in DOMAIN chunk_summaries :
          ChunkUnparsed(i) =>
              /\ DegradedFromRaw(i)
              /\ (len(chunk_summaries[i].raw_analysis) > 0
                    <=> len(calls[i].response.raw) > 0)

\* C8 witness: a chunk was answered with more than 500 characters of
\* unparseable text, and another with unparseable text shorter than that
C8_Witness ==
    /\ \E i \in DOMAIN chunk_summaries :
          ChunkUnparsed(i) /\ len(calls[i].response.raw) > 500
    /\ \E i \in DOMAIN chunk_summaries :
          ChunkUnparsed(i) /\ len(calls[i].response.raw) \in 1..499

\* C9: an unparseable merge response makes the invocation return, without
\* raising, a summary carrying its level, the number of summaries merged
\* and the first 500 characters of the response; the caller goes on with a
\* returned summary as an ordinary element of the next list it merges.
C9_DegradedMergeContinues ==
    [][/\ (stage = "Merging" /\ calls' # calls) =>
            LET c == calls'[Len(calls')] IN
            c.response.parsed.type = "error" =>
                /\ ret'.type = "object"
                /\ ret'.keys = {"merge_level", "summaries_merged", "raw_analysis"}
                /\ ret'.merge_level = Top.level
                /\ ret'.summaries_merged = Len(Top.summaries_to_merge)
                /\ len(ret'.raw_analysis) = Min(len(c.response.raw), 500)
                /\ Take(c.response.raw, 500) = ret'.raw_analysis
                /\ stack' = Pop
                /\ raised' = "none"
                /\ stage' = "Merging"
       /\ (stage = "Merging" /\ ret # NoSummary /\ stack # <<>> /\ raised' = "none") =>
            CASE Top.pc = "left" ->
                    stack'[Len(stack)].left_summary = ret
              [] Top.pc = "right" ->
                    stack'[Len(stack')].summaries_to_merge = <<Top.left_summary, ret>>
              [] Top.pc = "combine" -> ret' = ret
      ]_vars

\* a summary degraded by merge_recursive
IsDegradedMerge(s) ==
    s.type = "object" /\ s.keys = {"merge_level", "summaries_merged", "raw_analysis"}

\* C9 witness: a summary degraded by a merge is an element of the list the
\* next invocation is about to merge
C9_Witness ==
    /\ stage = "Merging"
    /\ stack # <<>>
    /\ Top.pc = "start"
    /\ Len(Top.summaries_to_merge) = 2
    /\ \E k \in 1..2 : IsDegradedMerge(Top.summaries_to_merge[k])

\* C10: every external merge call is made on a list whose serialized
\* context costs at most usable_context_size.
C10_MergeCallWithinBudget ==
    \A i \in DOMAIN calls :
        calls[i].op = "merge" => calls[i].context_tokens <= usable_context_size

\* C10 witness: a list too large for the budget was split and a merge call
\* was made one level up
C10_Witness ==
    \E i \in DOMAIN calls :
        calls[i].op = "merge" /\ calls[i].arg >= 2 /\ calls[i].n = 2

(***************************************************************************)
(* The order of the stages.                                                *)
(***************************************************************************)
\* the stages of analyze_repository in the order of its steps
StageOrder ==
    <<"Gathering", "Chunking", "ChunkSummarizing", "Merging", "Formatting", "Done">>

StageRank(s) == CHOOSE i \in 1..Len(StageOrder) : StageOrder[i] = s

ChunkCalls == Cardinality({i \in DOMAIN calls : calls[i].op = "chunk"})

\* C11: a run on a non-empty file list moves from each stage to the next
\* one only, so that no stage is skipped, entered twice or gone back to;
\* chunk calls are made in the chunk summarizing stage only and merge calls
\* in the merging stage only, after every chunk has had its one call
C11_StagesInOrder ==
    [][/\ (stage' # stage /\ all_files' # <<>>) =>
              StageRank(stage') = StageRank(stage) + 1
       /\ (calls' # calls) =>
              LET c == calls'[Len(calls')] IN
                /\ calls' = Append(calls, c)
                /\ c.op = "chunk" =>
                      /\ stage = "ChunkSummarizing" /\ stage' = stage
                      /\ MergeCalls = 0
                      /\ c.arg = Len(calls) + 1
                /\ c.op = "merge" =>
                      /\ stage = "Merging" /\ stage' = stage
                      /\ Len(chunk_summaries) = Len(chunks)
                      /\ ChunkCalls = Len(chunks)]_vars

\* a run on two chunks went through every stage, with chunk and merge calls
C11_Witness ==
    /\ stage = "Done"
    /\ all_files # <<>>
    /\ Len(chunks) >= 2
    /\ MergeCalls >= 1
    /\ ChunkCalls = Len(chunks)

(***************************************************************************)
(* The chunker.                                                            *)
(***************************************************************************)
\* no input file is oversized
AllFit == \A k \in DOMAIN all_files : all_files[k].tokens <= chunk_size

RECURSIVE SumOver(_, _)
\* the cost of the files of the set K of positions of sorted_files
SumOver(K, i) ==
    IF i > Len(sorted_files) THEN 0
    ELSE (IF i \in K THEN sorted_files[i].tokens ELSE 0) + SumOver(K, i + 1)

\* the files can be put into k groups, each within the chunk size
FitsInGroups(k) ==
    \E g \in [DOMAIN sorted_files -> 1..k] :
        \A j \in 1..k : SumOver({i \in DOMAIN sorted_files : g[i] = j}, 1) <= chunk_size

\* the sorted files can be cut into k runs of neighbours, each within the
\* chunk size
FitsInRuns(k) ==
    \E cuts \in SUBSET (1..(Len(sorted_files) - 1)) :
        /\ Cardinality(cuts) = k - 1
        /\ \A a \in DOMAIN sorted_files : \A b \in a..Len(sorted_files) :
              (\A c \in cuts : c < a \/ c >= b) =>
                  SumOver(a..b, 1) <= chunk_size

\* C12 as stated: for every input without oversized files the chunker
\* produces the least number of groups that any grouping of the files into
\* groups within the chunk size has
C12_MinimalGroups ==
    (Chunked /\ AllFit) => ~\E k \in 1..(Len(chunks) - 1) : FitsInGroups(k)

\* C12 amended: for every input without oversized files the chunker
\* produces the least number of groups among the groupings that keep the
\* files in path order (each group a run of neighbours within the chunk
\* size), and its own grouping is one of them
C12_MinimalRuns ==
    (Chunked /\ AllFit) =>
        /\ FitsInRuns(Len(chunks))
        /\ ~\E k \in 1..(Len(chunks) - 1) : FitsInRuns(k)

\* three files of 100, 200 and 100 tokens under chunk size 250: three
\* chunks, although the two small files fit together
C12_Witness ==
    /\ stage = "ChunkSummarizing"
    /\ AllFit
    /\ Len(chunks) = 3
    /\ FitsInGroups(2)
    /\ ~FitsInRuns(2)

ChunkCosts == [i \in DOMAIN chunks |-> SumTokens(chunks[i])]

\* C15: one pass over the sorted files: a file that is not oversized joins
\* the open chunk when the running cost plus its cost is within the chunk
\* size, otherwise the open chunk is closed and the file starts a new one;
\* at the end the open chunk is closed if it is not empty; five files of
\* 100 tokens under chunk size 250 give chunks of 200, 200 and 100 tokens
C15_GreedyPacking ==
    [][/\ (stage = "Chunking" /\ idx' = idx + 1
              /\ sorted_files[idx].tokens <= chunk_size) =>
              LET file_data == sorted_files[idx] IN
              IF current_tokens + file_data.tokens <= chunk_size
              THEN /\ chunks' = chunks
                   /\ current_chunk' = Append(current_chunk, file_data)
                   /\ current_tokens' = current_tokens + file_data.tokens
              ELSE /\ current_chunk # <<>>
                   /\ chunks' = Append(chunks, current_chunk)
                   /\ current_chunk' = <<file_data>>
                   /\ current_tokens' = file_data.tokens
       /\ (stage = "Chunking" /\ stage' = "ChunkSummarizing") =>
              /\ idx = Len(sorted_files) + 1
              /\ current_tokens = SumTokens(current_chunk)
              /\ chunks' = IF current_chunk = <<>> THEN chunks
                            ELSE Append(chunks, current_chunk)
              /\ (/\ chunk_size = 250
                  /\ Len(all_files) = 5
                  /\ \A k \in DOMAIN all_files : all_files[k].tokens = 100)
                 => [i \in DOMAIN chunks' |-> SumTokens(chunks'[i])] = <<200, 200, 100>>]_vars

\* the five files of 100 tokens have been chunked under chunk size 250
C15_Witness ==
    /\ stage = "ChunkSummarizing"
    /\ chunk_size = 250
    /\ Len(all_files) = 5
    /\ \A k \in DOMAIN all_files : all_files[k].tokens = 100
    /\ ChunkCosts = <<200, 200, 100>>

\* C16: an oversized file first closes the open chunk if it is not empty
\* and then adds ceil(cost / chunk size) chunks of one entry each, in
\* order, labelled with the file's path and part i of total, i = 1..total;
\* a file of 1000 tokens under chunk size 300 adds 4 chunks
C16_OversizedSplit ==
    [][(stage = "Chunking" /\ idx' = idx + 1
          /\ sorted_files[idx].tokens > chunk_size) =>
          LET file_data == sorted_files[idx]
              total == CeilDiv(file_data.tokens, chunk_size)
              closed == IF current_chunk = <<>> THEN chunks
                        ELSE Append(chunks, current_chunk)
          IN /\ Len(chunks') = Len(closed) + total
             /\ SubSeq(chunks', 1, Len(closed)) = closed
             /\ \A i \in 1..total :
                   LET c == chunks'[Len(closed) + i] IN
                     /\ Len(c) = 1
                     /\ c[1].path = file_data.path
                     /\ c[1].part = i
                     /\ c[1].total = total
             /\ current_chunk' = <<>>
             /\ current_tokens' = 0
             /\ (file_data.tokens = 1000 /\ chunk_size = 300) => total = 4]_vars

\* a file of 1000 tokens came after a file that fits, under chunk size 300:
\* the small file's chunk is followed by parts 1/4 to 4/4
C16_Witness ==
    /\ chunk_size = 300
    /\ \E k \in DOMAIN chunks :
          /\ k + 4 <= Len(chunks)
          /\ chunks[k][1].part = 0
          /\ \A i \in 1..4 :
                /\ Len(chunks[k + i]) = 1
                /\ chunks[k + i][1].part = i
                /\ chunks[k + i][1].total = 4
                /\ chunks[k + i][1].path # chunks[k][1].path

\* C25: throughout the chunker's pass the running cost is the sum of the
\* costs of the units of the open chunk and is at most the chunk size, and
\* no chunk that was appended is empty
C25_RunningCost ==
    /\ current_tokens = SumTokens(current_chunk)
    /\ current_tokens <= chunk_size
    /\ \A i \in DOMAIN chunks : chunks[i] # <<>>

\* in the middle of the pass: chunks have been closed, one of them by an
\* oversized file, and the open chunk holds two units
C25_Witness ==
    /\ stage = "Chunking"
    /\ idx <= Len(sorted_files)
    /\ Len(current_chunk) = 2
    /\ current_tokens = chunk_size
    /\ \E i \in DOMAIN chunks : chunks[i][1].part > 0
    /\ \E i \in DOMAIN chunks : chunks[i][1].part = 0

\* C26: where a chunk was closed because the next unit, not an oversized
\* one, did not fit, the cost of the closed chunk plus the cost of the
\* first unit of the chunk that follows exceeds the chunk size
C26_GreedyMaximal ==
    /\ \A i \in 1..(Len(chunks) - 1) :
          (chunks[i][1].part = 0 /\ chunks[i + 1][1].part = 0) =>
              SumTokens(chunks[i]) + chunks[i + 1][1].tokens > chunk_size
    /\ (/\ stage = "Chunking"
        /\ chunks # <<>>
        /\ current_chunk # <<>>
        /\ chunks[Len(chunks)][1].part = 0) =>
           SumTokens(chunks[Len(chunks)]) + current_chunk[1].tokens > chunk_size

\* two chunks of several units each were closed by a unit that did not fit
C26_Witness ==
    /\ stage = "ChunkSummarizing"
    /\ \E i \in 1..(Len(chunks) - 1) :
          /\ Len(chunks[i]) >= 2
          /\ Len(chunks[i + 1]) >= 2
          /\ chunks[i][1].part = 0
          /\ chunks[i + 1][1].part = 0
          /\ SumTokens(chunks[i]) < chunk_size

(***************************************************************************)
(* Cancellation.                                                           *)
(***************************************************************************)
\* C14: once the cancellation signal is raised, the run makes no further
\* chunk or merge call (it stops at the boundary before the next call)
C14_CancelStopsCalls == [][cancelled => calls' = calls]_vars

(***************************************************************************)
(* GitAutomator.                                                           *)
(***************************************************************************)
GuardedMethods == {"checkout_branch", "make_changes", "commit_changes", "push_changes"}

\* C17: while repo_path is unset, a call of checkout_branch, make_changes,
\* commit_changes or push_changes raises GitOperationError, runs no git
\* command, writes no file and leaves repo_path unset
C17_UnsetRepoRaises ==
    [][(repo_path = NoPath /\ git_result'.op \in GuardedMethods) =>
          /\ git_result'.outcome = "GitOperationError"
          /\ git_log' = git_log
          /\ written' = written
          /\ repo_path' = NoPath]_vars

\* make_changes was called on a fresh GitAutomator and raised
C17_Witness ==
    /\ repo_path = NoPath
    /\ git_result = [op |-> "make_changes", outcome |-> "GitOperationError"]
    /\ git_log = <<>>
    /\ written = {}

(***************************************************************************)
(* The merge: calls, live summaries and levels.                            *)
(***************************************************************************)
\* this step makes an external merge call
MergeCallStep ==
    /\ calls' # calls
    /\ calls'[Len(calls')].op = "merge"

RECURSIVE LiveFrom(_, _, _)
\* the summaries still to be combined by the invocations k.. of the stack
\* stk, r being the value in return: the list of an invocation that has
\* not looked at it yet, a half not yet given on, a half-result held, and
\* the value in return
LiveFrom(stk, r, k) ==
    IF k > Len(stk) THEN (IF r = NoSummary THEN 0 ELSE 1)
    ELSE CASE stk[k].pc = "start" -> Len(stk[k].summaries_to_merge)
           [] stk[k].pc = "left" ->
                  LiveFrom(stk, r, k + 1) + Len(RightHalf(stk[k].summaries_to_merge))
           [] stk[k].pc = "right" -> 1 + LiveFrom(stk, r, k + 1)
           [] stk[k].pc = "combine" -> LiveFrom(stk, r, k + 1)

\* C18: an external merge call is made on a list of at least two
\* summaries and returns one summary in their place (the invocation ends
\* with it), so that the number of live summaries goes down by the number
\* of inputs less one, which is at least one, at every external call; no
\* other step of the merge changes it
C18_CallsShrinkLive ==
    [][(stage = "Merging" /\ stage' = "Merging" /\ raised' = "none") =>
          IF MergeCallStep
          THEN LET c == calls'[Len(calls')]
                   inputs == Top.summaries_to_merge
               IN /\ Len(inputs) >= 2
                  /\ c.n = Len(inputs)
                  /\ ret' # NoSummary
                  /\ stack' = Pop
                  /\ LiveFrom(stack', ret', 1) = LiveFrom(stack, ret, 1) - (Len(inputs) - 1)
                  /\ LiveFrom(stack', ret', 1) < LiveFrom(stack, ret, 1)
          ELSE LiveFrom(stack', ret', 1) = LiveFrom(stack, ret, 1)]_vars

\* a split merge of four or more summaries has made three calls and returned
C18_Witness ==
    /\ stage = "Merging"
    /\ Len(chunk_summaries) >= 4
    /\ MergeCalls = 3
    /\ stack = <<>>
    /\ LiveFrom(stack, ret, 1) = 1

\* the level a summary carries: its merge_level, 0 for a chunk summary
LevelOf(summary) ==
    IF "merge_level" \in summary.keys THEN summary.merge_level ELSE 0

\* C19: every summary that an external merge call produces with a level
\* carries a level greater than the level of each summary it was merged
\* from (chunk summaries being at level 0)
C19_LevelAboveInputs ==
    [][(MergeCallStep /\ "merge_level" \in ret'.keys) =>
          \A k \in DOMAIN Top.summaries_to_merge :
              LevelOf(ret') > LevelOf(Top.summaries_to_merge[k])]_vars

\* C20: a nested invocation gets a level that is not below its caller's:
\* the caller's level for the left and for the right half of its list,
\* and the caller's level plus one exactly for the invocation that
\* combines the two half-results
C20_NestedLevels ==
    [][(stage = "Merging" /\ Len(stack) >= 1 /\ Len(stack') = Len(stack) + 1) =>
          LET caller == stack'[Len(stack)]
              nested == stack'[Len(stack')]
          IN /\ nested.level >= caller.level
             /\ caller.level = Top.level
             /\ caller.pc = "left" =>
                   /\ nested.level = caller.level
                   /\ nested.summaries_to_merge = LeftHalf(caller.summaries_to_merge)
             /\ caller.pc = "right" =>
                   /\ nested.level = caller.level
                   /\ nested.summaries_to_merge = RightHalf(caller.summaries_to_merge)
             /\ caller.pc = "combine" =>
                   /\ nested.level = caller.level + 1
                   /\ nested.summaries_to_merge =
                         <<caller.left_summary, caller.right_summary>>
             /\ caller.pc \in {"left", "right", "combine"}]_vars

\* inside the right half of the outermost list, two half-results are being
\* combined at level 2 while the outermost invocation is still at level 1
C20_Witness ==
    /\ Len(stack) = 3
    /\ stack[1].pc = "right" /\ stack[1].level = 1
    /\ stack[2].pc = "combine" /\ stack[2].level = 1
    /\ stack[3].pc = "start" /\ stack[3].level = 2

(***************************************************************************)
(* The formatted result against the final summary.                         *)
(***************************************************************************)
\* the summary is one the capability's JSON answer was parsed into
ParsedSummary(summary) == summary.type = "object" /\ "raw_analysis" \notin summary.keys

\* the technologies a summary reports, under either schema's key
ReportedTechnologies(summary) ==
    IF "all_technologies" \in summary.keys THEN summary.all_technologies
    ELSE IF "technologies" \in summary.keys THEN summary.technologies
    ELSE {}

\* C23: the project type and the technologies of the formatted result are
\* those the final summary reports whenever that summary was parsed, also
\* in the run with one chunk, whose chunk summary is the final summary
C23_ResultReportsSummary ==
    (stage = "Done" /\ all_files # <<>> /\ ParsedSummary(final_summary)) =>
        /\ result.detailed_analysis = final_summary
        /\ ("project_type" \in final_summary.keys =>
               result.project_type = final_summary.project_type)
        /\ result.technologies = ReportedTechnologies(final_summary)

(***************************************************************************)
(* The order of the external calls, and what each merge call is given.     *)
(***************************************************************************)
MergeCallIdx == {i \in DOMAIN calls : calls[i].op = "merge"}

\* span a lies wholly to the left of span b
LeftOf(a, b) == a[2] < b[1]

\* span a lies within span b and is not all of it
Within(a, b) == b[1] <= a[1] /\ a[2] <= b[2] /\ a # b

\* the calls made so far are in the fixed order
CallsInOrder ==
    /\ \A i \in DOMAIN calls :
          IF calls[i].op = "chunk"
          THEN calls[i].arg = i /\ i <= Len(chunks)
          ELSE i > Len(chunks)
    /\ \A i, j \in MergeCallIdx :
          i < j => \/ LeftOf(calls[i].span, calls[j].span)
                   \/ Within(calls[i].span, calls[j].span)

\* C22: the external calls are made one at a time in a fixed order: one
\* summarization call per chunk in ascending chunk order, also after a
\* response that could not be parsed, then the merge calls left to right
\* and bottom up: every call for the left half of a split precedes every
\* call for its right half, and both precede the call combining them
C22_CallOrder ==
    /\ []CallsInOrder
    /\ [][calls' = calls \/ SubSeq(calls', 1, Len(calls' ) - 1) = calls]_vars

\* a run has ended in which a chunk call got no JSON, and both halves of a
\* split made a merge call before the call combining them
C22_Witness ==
    /\ stage = "Formatting"
    /\ raised = "none"
    /\ \E i \in DOMAIN calls : calls[i].op = "chunk" /\ calls[i].response.parsed.type = "error"
    /\ \E i, j, k \in MergeCallIdx :
          /\ i < j /\ j < k
          /\ LeftOf(calls[i].span, calls[j].span)
          /\ Within(calls[i].span, calls[k].span)
          /\ Within(calls[j].span, calls[k].span)

\* the chunk summaries that are direct inputs of merge call i
LeavesOf(i) == {calls[i].inputs[k][1] : k \in {k \in DOMAIN calls[i].inputs :
                                                 calls[i].inputs[k][1] = calls[i].inputs[k][2]}}

\* the two slices of a list that was split are not empty, and the left one
\* followed by the right one is the list
SlicesPartition(l) ==
    /\ LeftHalf(l) # <<>>
    /\ RightHalf(l) # <<>>
    /\ LeftHalf(l) \o RightHalf(l) = l

\* C24: in a merge of two or more summaries that terminates, each chunk
\* summary is a direct input of exactly one merge call, and the slices of
\* every split are non-empty, disjoint and cover the list that was split
C24_LeavesMergedOnce ==
    /\ \A f \in DOMAIN stack :
          stack[f].pc # "start" =>
              /\ SlicesPartition(stack[f].summaries_to_merge)
              /\ SlicesPartition(stack[f].spans)
    /\ \A i, j \in MergeCallIdx : i # j => LeavesOf(i) \cap LeavesOf(j) = {}
    /\ \A i \in MergeCallIdx :
          \A k, l \in DOMAIN calls[i].inputs :
              k # l => calls[i].inputs[k] # calls[i].inputs[l]
    /\ (stage \in {"Formatting", "Done"} /\ raised = "none" /\ Len(chunk_summaries) >= 2) =>
          \A p \in DOMAIN chunk_summaries : \E i \in MergeCallIdx : p \in LeavesOf(i)

\* a merge of five summaries has returned after two splits, in which one
\* chunk summary went through two base cases into a combining call
C24_Witness ==
    /\ stage = "Formatting"
    /\ raised = "none"
    /\ Len(chunk_summaries) = 5
    /\ \E i \in MergeCallIdx :
          /\ Len(calls[i].inputs) = 2
          /\ Cardinality(LeavesOf(i)) = 1

(***************************************************************************)
(* analyze_all_branches.                                                   *)
(***************************************************************************)
\* C21: the analysis stored under a branch name was computed on the
\* working tree of that branch
C21_AnalysisOnOwnBranch ==
    \A b \in DOMAIN branch_analyses : branch_analyses[b].tree = b

\* C27: when analyze_all_branches has returned and the branch that was
\* current at the call is among the branches, that branch is checked out
C27_ReturnsToOriginalBranch ==
    (br_stage = "returned" /\ current_branch \in Range(all_branches)) =>
        head = current_branch

(***************************************************************************)
(* run_full_workflow.                                                      *)
(***************************************************************************)
IsPrefix(s, t) == Len(s) <= Len(t) /\ s = SubSeq(t, 1, Len(s))

\* the git commands of a complete workflow, in order
WorkflowCommands == <<"clone", "checkout", "add", "commit", "rev-parse", "push">>

\* C28: run_full_workflow runs clone, checkout, make_changes, commit and
\* push in that order; a git command that fails raises GitOperationError in
\* its step, no step follows a failed one, and the workflow then returns
\* success = False with the error instead of raising; it returns success =
\* True only after all five steps
C28_WorkflowStopsAtFailure ==
    /\ IsPrefix(workflow.done, WorkflowSteps)
    /\ IsPrefix([i \in DOMAIN git_log |-> git_log[i].cmd], WorkflowCommands)
    /\ \A i \in DOMAIN git_log :
          ~git_log[i].ok =>
              /\ i = Len(git_log)
              /\ git_result.outcome = "GitOperationError"
              /\ workflow.pc = "returned"
              /\ ~workflow.success
              /\ workflow.error = "GitOperationError"
    /\ workflow.pc = "returned" =>
          IF workflow.success
          THEN /\ workflow.done = WorkflowSteps
               /\ workflow.error = "none"
               /\ Len(git_log) = Len(WorkflowCommands)
               /\ \A i \in DOMAIN git_log : git_log[i].ok
          ELSE /\ workflow.error # "none"
               /\ git_result.outcome # "ok"
               /\ git_result.op = CASE Len(workflow.done) = 1 -> "clone_repository"
                                     [] Len(workflow.done) = 2 -> "checkout_branch"
                                     [] Len(workflow.done) = 3 -> "make_changes"
                                     [] Len(workflow.done) = 4 -> "commit_changes"
                                     [] Len(workflow.done) = 5 -> "push_changes"
    /\ (written # {}) = (Len(workflow.done) >= 3)

\* git commit failed in the fourth step: the workflow has returned success
\* False without pushing
C28_Witness ==
    /\ workflow.pc = "returned"
    /\ ~workflow.success
    /\ workflow.error = "GitOperationError"
    /\ workflow.done = <<"clone", "checkout", "make_changes", "commit">>
    /\ Len(git_log) = 4
    /\ git_log[4].cmd = "commit"
    /\ ~git_log[4].ok
    /\ written # {}

(***************************************************************************)
(* Branch selection.                                                       *)
(***************************************************************************)
\* C29: the branch selected is never a protected one: with action REUSE it
\* is one of the reuse candidates, none of which is main, master, develop
\* or development in any letter case; with action CREATE its last path
\* segment is not main, master or develop
C29_NeverProtected ==
    /\ \A c \in candidate_names :
          Lower(c) \notin {N_main, N_master, N_develop, N_development}
    /\ sel_stage = "returned" =>
          IF final_branch.action = "REUSE"
          THEN final_branch.branch_name \in candidate_names
          ELSE LastSegment(final_branch.branch_name) \notin {N_main, N_master, N_develop}

\* protected branches written with capitals were among the branches, the
\* model asked to reuse main, and another branch was selected
C29_Witness ==
    /\ sel_stage = "returned"
    /\ final_branch.action = "REUSE"
    /\ decision.selected_branch = N_main
    /\ \E i \in DOMAIN sel_input : sel_input[i].branch_name = BranchCatalog[2]
    /\ \E i \in DOMAIN sel_input : sel_input[i].branch_name = N_main

(***************************************************************************)
(* trim_messages.                                                          *)
(***************************************************************************)
\* the first message of the given list, if any, followed by its last k
\* messages
FirstAndLast(k) ==
    SubSeq(given_messages, 1, Min(1, Len(given_messages)))
        \o SubSeq(given_messages, Len(given_messages) - k + 1, Len(given_messages))

\* the list is the first message followed by a suffix of the others
KeepsFirstAndSuffix == messages = FirstAndLast(Len(messages) - Min(1, Len(given_messages)))

\* the loop stopped as soon as it could: the result is within the limit or
\* one message long (or empty), and with one message more it was over the limit
StoppedAtOnce ==
    /\ count_message_tokens(messages) <= trim_max_tokens \/ Len(messages) <= 1
    /\ Len(messages) < Len(given_messages) =>
          count_message_tokens(FirstAndLast(Len(messages))) > trim_max_tokens

\* C30: trim_messages returns for every list and limit; its result is the
\* first message followed by a suffix of the other messages, the oldest of
\* them removed one at a time until the count is within max_tokens or one
\* message is left
C30_TrimTerminates ==
    /\ <>(trim_stage = "returned")
    /\ [](KeepsFirstAndSuffix /\ (trim_stage = "returned" => StoppedAtOnce))
    /\ [][Len(messages') >= Len(messages) - 1]_vars

\* a history of four messages was cut to the first and the last one, which
\* are within the limit
C30_Witness ==
    /\ trim_stage = "returned"
    /\ Len(given_messages) = 4
    /\ Len(messages) = 2
    /\ count_message_tokens(messages) <= trim_max_tokens
    /\ given_messages[2] # given_messages[4]

====
